---- MODULE Spec2Model ----
(***************************************************************************)
(* Interrupt-driven UART transport of SDPSES (NiosUart / MbUart, C++ and   *)
(* C bindings) with its fixed-size queue, modelled as a state machine:     *)
(* one foreground caller, the device interrupt handler and the UART        *)
(* hardware (TX holding/shift register or FIFO, RX data register or FIFO). *)
(***************************************************************************)
EXTENDS Integers, Sequences, FiniteSets, TLC

\* ------------------------------------------------------------------ bounds
TxCap == 2              \* kTX_BUFF_SZ of the instance under test
RxCap == 2              \* kRX_BUFF_SZ of the instance under test
MaxCount == 2           \* largest data_count passed to read/write
MaxArrivals == 3        \* bytes arriving on the line between two clear/setup
FewArrivals == 1        \* the same where only the transmit path is followed
MbFifoDepth == 2        \* depth of the UartLite hardware FIFOs (scaled down)
MaxIcCalls == 4         \* interrupt-controller calls counted on a timer
QueueSizeMax == 4       \* largest size_max of a queue constructed on its own
MaxPushes == 5          \* pushes followed on such a queue between two clear

\* the transport never inspects a data byte: two values tell bytes apart
Bytes == {0, 1}
\* size_t arithmetic wraps; the word is modelled 16 bits wide because TLC's
\* integers are 32-bit signed (every size the queue can hold is far below the wrap)
WrapSize(n) == n % 65536

Min(a, b) == IF a < b THEN a ELSE b

\* ------------------------------------------------------- FixedQueue<T>
FixedQueue(size_max) ==
    [kSIZE_MAX |-> size_max, head |-> 0, tail |-> 0, size |-> 0,
     elements |-> [i \in 0..(size_max - 1) |-> 0]]

Queue_clear_sizeOnly(q) == [q EXCEPT !.size = 0]

Queue_clear_keep(q) == q

Queue_clear(q) == [q EXCEPT !.head = 0, !.tail = 0, !.size = 0]

Queue_push_nostore(q, element) ==
    [q EXCEPT !.tail = IF q.tail + 1 = q.kSIZE_MAX THEN 0 ELSE q.tail + 1,
              !.size = WrapSize(q.size + 1)]

Queue_push_nowrap(q, element) ==
    [q EXCEPT !.elements = [q.elements EXCEPT ![q.tail] = element],
              !.tail = q.tail + 1,
              !.size = WrapSize(q.size + 1)]

Queue_push(q, element) ==
    [q EXCEPT !.elements = [q.elements EXCEPT ![q.tail] = element],
              !.tail = IF q.tail + 1 = q.kSIZE_MAX THEN 0 ELSE q.tail + 1,
              !.size = WrapSize(q.size + 1)]

Queue_pop_stay(q) == [q EXCEPT !.size = WrapSize(q.size - 1)]

Queue_pop(q) ==
    [q EXCEPT !.head = IF q.head + 1 = q.kSIZE_MAX THEN 0 ELSE q.head + 1,
              !.size = WrapSize(q.size - 1)]

Queue_peek_next(q) == q.elements[(q.head + 1) % q.kSIZE_MAX]

Queue_peek(q) == q.elements[q.head]

Queue_empty(q) == IF q.size # 0 THEN FALSE ELSE TRUE

Queue_full_early(q) == IF q.size + 1 < q.kSIZE_MAX THEN FALSE ELSE TRUE

Queue_full(q) == IF q.size < q.kSIZE_MAX THEN FALSE ELSE TRUE

Queue_size(q) == q.size

Queue_availableSize(q) == WrapSize(q.kSIZE_MAX - q.size)

Queue_maxSize(q) == q.kSIZE_MAX

\* the occupied slots from head in circular order
QueueContents(q) ==
    [i \in 1..Min(q.size, q.kSIZE_MAX) |-> q.elements[(q.head + i - 1) % q.kSIZE_MAX]]

\* push every element of a buffer, in index order
RECURSIVE Queue_pushAll(_, _)
Queue_pushAll(q, buf) ==
    IF buf = <<>> THEN q ELSE Queue_pushAll(Queue_push(q, Head(buf)), Tail(buf))

\* pop n elements
Queue_popN_one(q, n) == IF n = 0 THEN q ELSE Queue_pop(q)

RECURSIVE Queue_popN(_, _)
Queue_popN(q, n) == IF n = 0 THEN q ELSE Queue_popN(Queue_pop(q), n - 1)

\* the n elements peek()/pop() deliver, in order
RECURSIVE Queue_peekN(_, _)
Queue_peekN(q, n) ==
    IF n = 0 THEN <<>> ELSE <<Queue_peek(q)>> \o Queue_peekN(Queue_pop(q), n - 1)

\* --------------------------------------------------------- SerialParams
DefaultParams ==
    [bitrate |-> 115200, databit |-> 8, parity |-> "none", stopbit |-> 1,
     flowControl |-> "none"]

\* the parameter sets the caller passes to setup
ParamChoices ==
    { DefaultParams,
      [DefaultParams EXCEPT !.flowControl = "hardware"] }

\* every kind of parameter set: allowed on both platforms, allowed on MbUart only,
\* and refused for its bitrate, data bits, parity, stop bits or flow control (a parity
\* of "mark" and a stop bit count of 3 stand for values cast from outside the enum)
SetupParams ==
    { DefaultParams,
      [DefaultParams EXCEPT !.bitrate = 9600, !.parity = "even", !.stopbit = 2],
      [DefaultParams EXCEPT !.bitrate = 230400],
      [DefaultParams EXCEPT !.databit = 5],
      [DefaultParams EXCEPT !.bitrate = 4800],
      [DefaultParams EXCEPT !.databit = 9],
      [DefaultParams EXCEPT !.parity = "mark"],
      [DefaultParams EXCEPT !.stopbit = 3],
      [DefaultParams EXCEPT !.flowControl = "hardware"],
      [DefaultParams EXCEPT !.flowControl = "xonxoff"] }

calcFramePeriodUsec_floor(p) ==
    LET startbit == 1
        paritybit == IF p.parity = "none" THEN 0 ELSE 1
        bitsPerFrame == startbit + p.databit + paritybit + p.stopbit
    IN (1000000 * bitsPerFrame) \div p.bitrate

calcFramePeriodUsec(p) ==
    LET startbit == 1
        paritybit == IF p.parity = "none" THEN 0 ELSE 1
        bitsPerFrame == startbit + p.databit + paritybit + p.stopbit
    IN ((1000000 * bitsPerFrame) + (p.bitrate - 1)) \div p.bitrate

\* 0 when the parameters are in the platform's allow-list, else 1
NiosUart_validateSerialParams_anyFlow(p) ==
    IF p.bitrate \notin {9600, 19200, 38400, 57600, 115200} THEN 1
    ELSE IF p.databit \notin {7, 8} THEN 1
    ELSE IF p.parity \notin {"none", "odd", "even"} THEN 1
    ELSE IF p.stopbit \notin {1, 2} THEN 1
    ELSE 0

NiosUart_validateSerialParams(p) ==
    IF p.bitrate \notin {9600, 19200, 38400, 57600, 115200} THEN 1
    ELSE IF p.databit \notin {7, 8} THEN 1
    ELSE IF p.parity \notin {"none", "odd", "even"} THEN 1
    ELSE IF p.stopbit \notin {1, 2} THEN 1
    ELSE IF p.flowControl # "none" THEN 1
    ELSE 0

MbUart_validateSerialParams(p) ==
    IF p.bitrate \notin {9600, 19200, 38400, 57600, 115200, 230400} THEN 1
    ELSE IF p.databit \notin {5, 6, 7, 8} THEN 1
    ELSE IF p.parity \notin {"none", "odd", "even"} THEN 1
    ELSE IF p.stopbit \notin {1, 2} THEN 1
    ELSE IF p.flowControl # "none" THEN 1
    ELSE 0

\* --------------------------------------------------------- FreeRunCounter
\* The counter works on uint32_t.  TLC's integers end below 2^32, so the word here
\* is modelled WordBits wide and the constants of the arithmetic are scaled with it.
\* What the arithmetic depends on is kept: every operation wraps at the word, the
\* 1024 ns granule is a power of two, the granules in a second times the granule stay
\* below the nanoseconds in a second (976562 * 1024 < 10^9), and frequencies exist
\* on both sides of every unit.
WordBits == 5

UINT32_MAX == 2^WordBits - 1

\* a value stored in a uint32_t
U32(n) == n % (UINT32_MAX + 1)

\* ">> 10" and "<< 10": the binary logarithm of the 1024 ns granule
kShift == 2
k1024 == 2^kShift

\* the literals 976562, 1000000 and 1000 of the constructor
k1024NSEC_PER_SEC == 5
kUSEC_PER_SEC == 7
kMSEC_PER_SEC == 3

\* nanoseconds in a second: 10^9 = 976562 * 1024 + 512
kNSEC_PER_SEC == k1024NSEC_PER_SEC * k1024 + 1

Units == {"nsec", "usec", "msec"}

\* the counts between two readings, by the timer's count method
diff_count_plain(countMethod, start_count, end_count) ==
    IF countMethod = "up" THEN end_count - start_count ELSE start_count - end_count

diff_count(countMethod, start_count, end_count) ==
    IF countMethod = "up" THEN U32(end_count - start_count)
                          ELSE U32(start_count - end_count)

\* the constants the constructor derives from the timer's frequency
FreeRunCounter_floor(frequency) ==
    [kCOUNTS_PER_1024NSEC |-> frequency \div k1024NSEC_PER_SEC,
     kCOUNTS_PER_USEC |-> frequency \div kUSEC_PER_SEC,
     kCOUNTS_PER_MSEC |-> frequency \div kMSEC_PER_SEC,
     kMEASUREMENT_UNIT_1024NSEC |-> frequency \div k1024NSEC_PER_SEC,
     kMEASUREMENT_UNIT_USEC |-> frequency \div kUSEC_PER_SEC,
     kMEASUREMENT_UNIT_MSEC |-> frequency \div kMSEC_PER_SEC]

FreeRunCounter(frequency) ==
    [kCOUNTS_PER_1024NSEC |->
         U32(frequency + (k1024NSEC_PER_SEC - 1)) \div k1024NSEC_PER_SEC,
     kCOUNTS_PER_USEC |-> U32(frequency + (kUSEC_PER_SEC - 1)) \div kUSEC_PER_SEC,
     kCOUNTS_PER_MSEC |-> U32(frequency + (kMSEC_PER_SEC - 1)) \div kMSEC_PER_SEC,
     kMEASUREMENT_UNIT_1024NSEC |-> frequency \div k1024NSEC_PER_SEC,
     kMEASUREMENT_UNIT_USEC |-> frequency \div kUSEC_PER_SEC,
     kMEASUREMENT_UNIT_MSEC |-> frequency \div kMSEC_PER_SEC]

\* an unsigned division as the build can execute it: a zero divisor is undefined,
\* and the cores answer it with 0 or with all ones when they do not trap
DivU32(a, b) == IF b = 0 THEN {0, UINT32_MAX} ELSE {a \div b}

kCOUNTS_PER(frc, unit) ==
    IF unit = "nsec" THEN frc.kCOUNTS_PER_1024NSEC
    ELSE IF unit = "usec" THEN frc.kCOUNTS_PER_USEC
    ELSE frc.kCOUNTS_PER_MSEC

\* the right-hand side of the assertion that opens convertXToCount and waitX
GuardLimit_loose(frc, unit) ==
    IF unit = "nsec" THEN DivU32(UINT32_MAX, frc.kCOUNTS_PER_1024NSEC)
    ELSE {q + 2 : q \in DivU32(UINT32_MAX, kCOUNTS_PER(frc, unit))}

GuardLimit(frc, unit) ==
    IF unit = "nsec" THEN DivU32(UINT32_MAX - (k1024 - 1), frc.kCOUNTS_PER_1024NSEC)
    ELSE DivU32(UINT32_MAX, kCOUNTS_PER(frc, unit))

convertNsecToCount(frc, nsec) ==
    U32(U32(frc.kCOUNTS_PER_1024NSEC * nsec) + (k1024 - 1)) \div k1024

convertUsecToCount(frc, usec) == U32(frc.kCOUNTS_PER_USEC * usec)

convertMsecToCount(frc, msec) == U32(frc.kCOUNTS_PER_MSEC * msec)

convertToCount(frc, unit, x) ==
    IF unit = "nsec" THEN convertNsecToCount(frc, x)
    ELSE IF unit = "usec" THEN convertUsecToCount(frc, x)
    ELSE convertMsecToCount(frc, x)

kMEASUREMENT_UNIT(frc, unit) ==
    IF unit = "nsec" THEN frc.kMEASUREMENT_UNIT_1024NSEC
    ELSE IF unit = "usec" THEN frc.kMEASUREMENT_UNIT_USEC
    ELSE frc.kMEASUREMENT_UNIT_MSEC

\* the results measureDurationX can return for a count difference
measureDurationNsec(frc, diffCount) ==
    IF diffCount >= 2^(WordBits - kShift)
    THEN {U32(q * k1024) :
             q \in DivU32(U32(diffCount + U32(frc.kMEASUREMENT_UNIT_1024NSEC - 1)),
                          frc.kMEASUREMENT_UNIT_1024NSEC)}
    ELSE DivU32(U32(U32(diffCount * k1024) + U32(frc.kMEASUREMENT_UNIT_1024NSEC - 1)),
                frc.kMEASUREMENT_UNIT_1024NSEC)

measureDurationUsec(frc, diffCount) ==
    DivU32(U32(diffCount + U32(frc.kMEASUREMENT_UNIT_USEC - 1)),
           frc.kMEASUREMENT_UNIT_USEC)

measureDurationMsec(frc, diffCount) ==
    DivU32(U32(diffCount + U32(frc.kMEASUREMENT_UNIT_MSEC - 1)),
           frc.kMEASUREMENT_UNIT_MSEC)

measureDuration(frc, unit, diffCount) ==
    IF unit = "nsec" THEN measureDurationNsec(frc, diffCount)
    ELSE IF unit = "usec" THEN measureDurationUsec(frc, diffCount)
    ELSE measureDurationMsec(frc, diffCount)

\* ------------------------------------------------------------ NiosTimer
\* ic_id and irq of a timer created without interrupt capability (0xFFFFFFFF)
kINVALID_VALUE == UINT32_MAX

\* no timer constructed yet
NiosTimerNone ==
    [binding |-> "none", assertsHalt |-> FALSE, icId |-> kINVALID_VALUE,
     state |-> "none", controlFlags |-> {}, violated |-> {}, icCalls |-> 0,
     lastOp |-> "none", rc |-> 0]

\* calls made to the interrupt controller (alt_ic_*), counted up to MaxIcCalls
IcCall(t) == [t EXCEPT !.icCalls = IF @ < MaxIcCalls THEN @ + 1 ELSE @]

\* ASSERT_(cond): a build with assertions halts at the first one that fails, a build
\* without them goes on
RECURSIVE Asserted(_, _)
Asserted(t, failing) ==
    IF failing = <<>> \/ ~t.assertsHalt THEN t
    ELSE IF Head(failing)[2] THEN Asserted(t, Tail(failing))
    ELSE [t EXCEPT !.violated = @ \cup {Head(failing)[1]}, !.state = "halted"]

\* NiosTimer_disableInterrupt / NiosTimer::disableInterrupt (enableInterrupt alike)
NiosTimer_switchInterrupt(t) ==
    LET a == Asserted(t, << <<"icId", t.icId # kINVALID_VALUE>>,
                            <<"ITO", "ITO" \in t.controlFlags>> >>)
    IN IF a.state = "halted" THEN a ELSE IcCall(a)

\* NiosTimer::setup switches the line off only when the timer has one
NiosTimer_setupDisable_guarded(t) ==
    IF t.icId # kINVALID_VALUE THEN IcCall(t) ELSE t

\* NiosTimer_setup calls NiosTimer_disableInterrupt whatever the timer is
NiosTimer_setupDisable(t) ==
    IF t.binding = "c" THEN NiosTimer_switchInterrupt(t)
    ELSE NiosTimer_setupDisable_guarded(t)

\* setup: the count-up method is refused; the control flags are made anew
NiosTimer_setup(t, method, reload) ==
    IF method = "up" THEN [t EXCEPT !.rc = 1]
    ELSE LET d == NiosTimer_setupDisable(t)
         IN IF d.state = "halted" THEN d
            ELSE [d EXCEPT !.controlFlags = IF reload THEN {"CONT"} ELSE {}, !.rc = 0]

\* the constructor: fields stored, control flags 0, then setup with the default
\* parameters (count down, reload, load value 0xFFFFFFFF)
NiosTimer_ctor(t, ic_id) ==
    LET s == NiosTimer_setup([t EXCEPT !.icId = ic_id, !.controlFlags = {},
                                       !.state = "ready"], "down", TRUE)
    IN IF s.state = "halted" THEN s
       ELSE [s EXCEPT !.state = IF s.rc = 0 THEN "ready" ELSE "none"]

\* setupInterrupt with a callback: the line is disabled, the handler registered, the
\* line enabled
NiosTimer_setupInterrupt(t) ==
    LET a == Asserted(t, << <<"icId", t.icId # kINVALID_VALUE>> >>)
    IN IF a.state = "halted" THEN a
       ELSE [IcCall(IcCall(IcCall(a))) EXCEPT !.controlFlags = @ \cup {"ITO"}, !.rc = 0]

\* ------------------------------------------------------------------ state
VARIABLES
    platform,         \* "nios" (Avalon UART) or "mb" (UartLite)
    lang,             \* "cpp" or "c": which binding of the driver runs
    icAccepts,        \* the interrupt controller accepts the registration of a
                      \* handler for this instance's kIC_ID/kIRQ
    txQueue, rxQueue, \* the two FixedQueue instances
    interruptFlags,   \* NiosUart: interrupt sources enabled (control-register bits)
    errorMask,        \* status bits treated as line errors
    lastError,        \* latched line errors
    framePeriodUsec,
    icEnabled,        \* the device's line is enabled at the interrupt controller
    isrRegistered,    \* the handler is installed for this instance
    op, pc,           \* the foreground call in progress and its position
    arg,              \* its arguments
    rc,               \* its return value
    outData,          \* the caller's output byte(s)
    callSent,         \* history: bytes the put/write/flush in progress wrote to TX data
    elapsedFrames,    \* flush: whole frame periods the free-running counter has
                      \* advanced since the wait in progress took its baseCount
    isrActive,        \* the handler is executing
    isrStatus,        \* the status word the handler read on entry
    control,          \* hardware control register
    txLevel,          \* bytes held by the transmitter (holding+shift / TX FIFO)
    rxFifo,           \* bytes held by the receiver (RXDATA / RX FIFO)
    hwErr,            \* error bits standing in the hardware status register
    irqLatch,         \* MbUart: interrupt latched at the interrupt controller
    txGhost,          \* history: accepted bytes not yet written to TX data
    rxServiced,       \* history: bytes the handler read from RX data since the RX
                      \* queue was last emptied by clear/setup (kept until a get/read pops)
    rxGhost,          \* history: bytes the handler stored that get/read have not returned
    rxArrived,        \* history: bytes that arrived on the line since the last clear/setup
    queue,            \* a FixedQueue used on its own, outside a transport
    pushHistory,      \* history: the elements pushed to it since construction/clear
    popCount,         \* history: the number of pops since construction/clear
    countMethod,      \* FreeRunCounter: "up" or "down", the timer's count method
    frequency,        \* the timer's frequency, counts per second
    counter,          \* the timer's counter register
    base_count,       \* the reading a caller took with now()
    elapsedCounts,    \* history: the counts the timer has made since that reading
    frcCall,          \* the last call of the counter's arithmetic and what it returned
    frcTimer,         \* getInstance's initialized flag and what was done to the timer
    niosTimer         \* a NiosTimer on its own: its fields and what its calls did

swVars == <<txQueue, rxQueue, interruptFlags, errorMask, lastError, framePeriodUsec,
            icEnabled, isrRegistered>>
fgVars == <<op, pc, arg, rc, outData, callSent, elapsedFrames>>
isrVars == <<isrActive, isrStatus>>
hwVars == <<control, txLevel, rxFifo, hwErr, irqLatch>>
ghostVars == <<txGhost, rxServiced, rxGhost, rxArrived>>
lawVars == <<queue, pushHistory, popCount>>
transportVars == <<platform, lang, icAccepts, swVars, fgVars, isrVars, hwVars, ghostVars>>
counterVars == <<countMethod, frequency, counter, base_count, elapsedCounts, frcCall,
                 frcTimer, niosTimer>>
vars == <<transportVars, lawVars, counterVars>>

ErrorBits == {"parity", "framing", "overrun"}

NoArg == [data |-> <<>>, count |-> 0, params |-> DefaultParams, which |-> "none"]

\* --------------------------------------------------------------- hardware
\* Avalon UART status word: error bits, TMT, TRDY, RRDY
NiosStatus ==
    hwErr \cup (IF txLevel < 2 THEN {"TRDY"} ELSE {})
          \cup (IF txLevel = 0 THEN {"TMT"} ELSE {})
          \cup (IF rxFifo # <<>> THEN {"RRDY"} ELSE {})

\* UartLite status word: error bits, RX valid data, TX FIFO empty/full
MbStatus ==
    hwErr \cup (IF rxFifo # <<>> THEN {"RX_FIFO_VALID_DATA"} ELSE {})
          \cup (IF txLevel = 0 THEN {"TX_FIFO_EMPTY"} ELSE {})
          \cup (IF txLevel >= MbFifoDepth THEN {"TX_FIFO_FULL"} ELSE {})

\* the device requests an interrupt
NiosIrqAsserted == (NiosStatus \cap control) # {}

MbIrqAsserted == irqLatch \/ ("ENABLE_INTR" \in control /\ rxFifo # <<>>)

TxDepth == IF platform = "nios" THEN 2 ELSE MbFifoDepth

\* the transmitter accepts a byte written to its data register
HwTxWrite(level) == IF level < TxDepth THEN level + 1 ELSE level

\* history of the TX data register: the byte written must be the oldest accepted one
TxGhostWrite(g, w) ==
    IF g.pending # <<>> /\ Head(g.pending) = w
    THEN [g EXCEPT !.pending = Tail(g.pending),
                   !.mark = IF g.mark > 0 THEN g.mark - 1 ELSE 0]
    ELSE [g EXCEPT !.ok = FALSE]

RECURSIVE TxGhostWriteAll(_, _)
TxGhostWriteAll(g, ws) ==
    IF ws = <<>> THEN g ELSE TxGhostWriteAll(TxGhostWrite(g, Head(ws)), Tail(ws))

\* the choices of which accepted byte, if any, to follow to the wire
MarkChoices(g, buf) ==
    IF g.track /\ g.mark = 0 /\ buf # <<>>
    THEN {0} \cup ((Len(g.pending) + 1)..(Len(g.pending) + Len(buf)))
    ELSE {g.mark}

TxGhostAccept(g, buf, mk) == [g EXCEPT !.pending = g.pending \o buf, !.mark = mk]

TxGhostReset(g) == [g EXCEPT !.pending = <<>>, !.mark = 0]

\* history of the RX queue: get/read must return the oldest stored bytes
RECURSIVE RxGhostTake(_, _)
RxGhostTake(g, bs) ==
    IF bs = <<>> THEN g
    ELSE IF g.pending # <<>> /\ Head(g.pending) = Head(bs)
    THEN RxGhostTake([g EXCEPT !.pending = Tail(g.pending), !.popped = TRUE], Tail(bs))
    ELSE [g EXCEPT !.ok = FALSE, !.popped = TRUE]

RxGhostStore(g, bs) == [g EXCEPT !.pending = g.pending \o bs]

RxGhostInit == [pending |-> <<>>, ok |-> TRUE, popped |-> FALSE]

\* ------------------------------------------------- interrupt controller
\* alt_ic_irq_disable / XIntc_DisableIntr: the line's enable state afterwards
IrqDisable_skip(enabled) == enabled

IrqDisable(enabled) == FALSE

\* alt_ic_irq_enable / XIntc_EnableIntr
IrqEnable_keep(enabled) == enabled

IrqEnable(enabled) == TRUE

\* --------------------------------------------------------- construction
NiosSources == {"parity", "framing", "overrun", "RRDY"}

\* the state after construction; track says whether the history follows one accepted
\* byte to the wire
\* the stand-alone queue while a transport is followed
QueueUnused == queue = FixedQueue(1) /\ pushHistory = <<>> /\ popCount = 0

\* the free-running counter while a transport or a queue is followed: a down-counter
\* loaded with all ones, no call of its arithmetic made
NoFrcCall == [name |-> "none", unit |-> "none", input |-> 0, passed |-> TRUE, value |-> 0]

\* the timer as the constructor leaves it: set up once with auto-reload, load value
\* 0xFFFFFFFF and the build's count method, started once
FrcConstructed(method) ==
    [initialized |-> TRUE, halted |-> FALSE, setups |-> 1, starts |-> 1,
     running |-> TRUE,
     config |-> [method |-> method, reload |-> TRUE, loadCountValue |-> UINT32_MAX]]

NiosTimerUnused == niosTimer = NiosTimerNone

FrcUnused ==
    /\ countMethod = "down" /\ frequency = kUSEC_PER_SEC
    /\ frcTimer = FrcConstructed("down")
    /\ counter = UINT32_MAX /\ base_count = UINT32_MAX /\ elapsedCounts = 0
    /\ frcCall = NoFrcCall

CounterUnused == FrcUnused /\ NiosTimerUnused

InitWith(track) ==
    /\ QueueUnused /\ CounterUnused
    /\ platform \in {"nios", "mb"}
    /\ lang \in (IF platform = "nios" THEN {"cpp"} ELSE {"cpp", "c"})
    /\ icAccepts = TRUE
    /\ txQueue = FixedQueue(TxCap)
    /\ rxQueue = FixedQueue(RxCap)
    /\ interruptFlags = (IF platform = "nios" THEN NiosSources ELSE {})
    /\ errorMask = ErrorBits
    /\ lastError = {}
    /\ framePeriodUsec = calcFramePeriodUsec(DefaultParams)
    /\ icEnabled = TRUE
    /\ isrRegistered = TRUE
    /\ op = "none" /\ pc = "idle" /\ arg = NoArg /\ rc = 0 /\ outData = <<>>
    /\ callSent = <<>> /\ elapsedFrames = 0
    /\ isrActive = FALSE /\ isrStatus = {}
    /\ control = (IF platform = "nios" THEN NiosSources ELSE {"ENABLE_INTR"})
    /\ txLevel = 0 /\ rxFifo = <<>> /\ hwErr = {} /\ irqLatch = FALSE
    /\ txGhost = [pending |-> <<>>, ok |-> TRUE, mark |-> 0, track |-> track]
    /\ rxServiced = <<>> /\ rxGhost = RxGhostInit /\ rxArrived = 0

Init == InitWith(FALSE)

\* a NiosUart constructed on a line the controller refuses (ic_id "none"):
\* alt_ic_isr_register failed inside the constructor's setup, which left the control
\* register at 0 and no handler installed
InitRefused ==
    /\ QueueUnused /\ CounterUnused
    /\ platform = "nios" /\ lang = "cpp"
    /\ icAccepts = FALSE
    /\ txQueue = FixedQueue(TxCap)
    /\ rxQueue = FixedQueue(RxCap)
    /\ interruptFlags = NiosSources
    /\ errorMask = ErrorBits
    /\ lastError = {}
    /\ framePeriodUsec = calcFramePeriodUsec(DefaultParams)
    /\ icEnabled = TRUE
    /\ isrRegistered = FALSE
    /\ op = "none" /\ pc = "idle" /\ arg = NoArg /\ rc = 0 /\ outData = <<>>
    /\ callSent = <<>> /\ elapsedFrames = 0
    /\ isrActive = FALSE /\ isrStatus = {}
    /\ control = {}
    /\ txLevel = 0 /\ rxFifo = <<>> /\ hwErr = {} /\ irqLatch = FALSE
    /\ txGhost = [pending |-> <<>>, ok |-> TRUE, mark |-> 0, track |-> FALSE]
    /\ rxServiced = <<>> /\ rxGhost = RxGhostInit /\ rxArrived = 0

\* ------------------------------------------------------ foreground calls
BufChoices(txB) == UNION { [1..n -> txB] : n \in 0..MaxCount }

\* entry of a call: rc = 1, then the device interrupt is disabled
Call(o, a, out) ==
    /\ pc = "idle" /\ ~isrActive
    /\ op' = o /\ pc' = "cs" /\ arg' = a /\ rc' = 1 /\ outData' = out
    /\ callSent' = <<>>
    /\ icEnabled' = IrqDisable(icEnabled)
    /\ UNCHANGED elapsedFrames
    /\ UNCHANGED <<lawVars, counterVars, platform, lang, icAccepts, txQueue, rxQueue, interruptFlags, errorMask,
                   lastError, framePeriodUsec, isrRegistered, isrVars, hwVars, ghostVars>>

GetCall(rxB) == \E prior \in rxB : Call("get", NoArg, <<prior>>)

\* put and write read their data argument inside the critical section, where the
\* bodies below draw it and leave it in arg for the caller's return
PutCall == Call("put", NoArg, <<>>)

ReadCall == \E n \in 0..MaxCount :
    Call("read", [NoArg EXCEPT !.count = n], [i \in 1..n |-> 0])

WriteCall == Call("write", NoArg, <<>>)

ClearCall == Call("clear", NoArg, <<>>)

QueryCall(errs) == \E which \in errs \cup {"overrun"} :
    Call("query", [NoArg EXCEPT !.which = which], <<>>)

\* the caller takes the result; the transport is idle again
Return ==
    /\ pc = "ret" /\ ~isrActive
    /\ op' = "none" /\ pc' = "idle" /\ arg' = NoArg /\ rc' = 0 /\ outData' = <<>>
    /\ callSent' = <<>>
    /\ elapsedFrames' = 0
    /\ UNCHANGED <<lawVars, counterVars, platform, lang, icAccepts, swVars, isrVars, hwVars, ghostVars>>

\* get: pop one byte into *data when the RX queue is not empty
GetBody ==
    /\ pc = "cs" /\ op = "get" /\ ~isrActive
    /\ IF ~Queue_empty(rxQueue)
       THEN /\ outData' = <<Queue_peek(rxQueue)>>
            /\ rxQueue' = Queue_pop(rxQueue)
            /\ rxGhost' = RxGhostTake(rxGhost, <<Queue_peek(rxQueue)>>)
            /\ rxServiced' = <<>>
            /\ rc' = 0
       ELSE UNCHANGED <<outData, rxQueue, rxGhost, rxServiced, rc>>
    /\ icEnabled' = IrqEnable(icEnabled)
    /\ pc' = "ret" /\ arg' = NoArg
    /\ UNCHANGED elapsedFrames
    /\ UNCHANGED <<lawVars, counterVars, platform, lang, icAccepts, rxArrived, callSent, txQueue, interruptFlags, errorMask, lastError,
                   framePeriodUsec, isrRegistered, op, isrVars, hwVars, txGhost>>

\* read: all-or-nothing pop of data_count bytes
ReadBody ==
    /\ pc = "cs" /\ op = "read" /\ ~isrActive
    /\ IF Queue_size(rxQueue) >= arg.count
       THEN /\ outData' = Queue_peekN(rxQueue, arg.count)
            /\ rxQueue' = Queue_popN(rxQueue, arg.count)
            /\ rxGhost' = RxGhostTake(rxGhost, Queue_peekN(rxQueue, arg.count))
            /\ rxServiced' = IF arg.count > 0 THEN <<>> ELSE rxServiced
            /\ rc' = 0
       ELSE UNCHANGED <<outData, rxQueue, rxGhost, rxServiced, rc>>
    /\ icEnabled' = IrqEnable(icEnabled)
    /\ pc' = "ret" /\ arg' = NoArg
    /\ UNCHANGED elapsedFrames
    /\ UNCHANGED <<lawVars, counterVars, platform, lang, icAccepts, rxArrived, callSent, txQueue, interruptFlags, errorMask, lastError,
                   framePeriodUsec, isrRegistered, op, isrVars, hwVars, txGhost>>

\* clear: both queues and the latched errors
ClearBody ==
    /\ pc = "cs" /\ op = "clear" /\ ~isrActive
    /\ txQueue' = Queue_clear(txQueue)
    /\ rxQueue' = Queue_clear(rxQueue)
    /\ lastError' = {}
    /\ icEnabled' = IrqEnable(icEnabled)
    /\ pc' = "ret" /\ arg' = NoArg /\ rc' = 0
    /\ txGhost' = TxGhostReset(txGhost) /\ rxServiced' = <<>> /\ rxGhost' = RxGhostInit
    /\ rxArrived' = 0
    /\ UNCHANGED elapsedFrames
    /\ UNCHANGED <<lawVars, counterVars, platform, lang, icAccepts, interruptFlags, errorMask, framePeriodUsec,
                   isrRegistered, op, outData, callSent, isrVars, hwVars>>

\* getFramePeriodUsec(): the member, read without a critical section
getFramePeriodUsec == framePeriodUsec

\* overrun/framing/parityErrorOccurred: rc is 1 for true, 0 for false
QueryBody ==
    /\ pc = "cs" /\ op = "query" /\ ~isrActive
    /\ rc' = (IF arg.which \in lastError THEN 1 ELSE 0)
    /\ icEnabled' = IrqEnable(icEnabled)
    /\ pc' = "ret" /\ arg' = NoArg
    /\ UNCHANGED elapsedFrames
    /\ UNCHANGED <<lawVars, counterVars, platform, lang, icAccepts, txQueue, rxQueue, interruptFlags, errorMask, lastError,
                   framePeriodUsec, isrRegistered, op, outData, callSent, isrVars, hwVars,
                   ghostVars>>

\* ---------------------------------------------------------------- put
\* the byte put hands to the TX data register when the transmitter is ready
PutTxByte_newest(q, data) == data

PutTxByte(q, data) == IF Queue_empty(q) THEN data ELSE Queue_peek(q)

\* the TX queue after put found the transmitter ready
PutTxQueue_enqueue(q, data) == Queue_push(q, data)

PutTxQueue(q, data) ==
    IF Queue_empty(q) THEN q ELSE Queue_push(Queue_pop(q), data)

\* result of put's branch: the queue, the bytes written to TX data, rc
PutEffect_full(ready, q, data) ==
    IF Queue_full(q)
    THEN [q |-> q, sent |-> <<>>, rc |-> 1]
    ELSE IF ready
    THEN [q |-> PutTxQueue(q, data), sent |-> <<PutTxByte(q, data)>>, rc |-> 0]
    ELSE [q |-> Queue_push(q, data), sent |-> <<>>, rc |-> 0]

PutEffect(ready, q, data) ==
    IF ready
    THEN [q |-> PutTxQueue(q, data), sent |-> <<PutTxByte(q, data)>>, rc |-> 0]
    ELSE IF ~Queue_full(q)
    THEN [q |-> Queue_push(q, data), sent |-> <<>>, rc |-> 0]
    ELSE [q |-> q, sent |-> <<>>, rc |-> 1]

\* interruptFlags_ |= TRDY, the value then written to the control register
EnableTxSource_skip(flags) == flags

EnableTxSource(flags) == flags \cup {"TRDY"}

NiosPutBody(txB) ==
    /\ platform = "nios" /\ pc = "cs" /\ op = "put" /\ ~isrActive
    /\ \E data \in txB :
       LET e == PutEffect("TRDY" \in NiosStatus, txQueue, data)
           accepted == IF e.rc = 0 THEN <<data>> ELSE <<>>
       IN /\ txQueue' = e.q
          /\ txLevel' = IF e.sent # <<>> THEN HwTxWrite(txLevel) ELSE txLevel
          /\ callSent' = e.sent
          /\ rc' = e.rc
          /\ arg' = [NoArg EXCEPT !.data = <<data>>]
          /\ \E mk \in MarkChoices(txGhost, accepted) :
                txGhost' = TxGhostWriteAll(TxGhostAccept(txGhost, accepted, mk), e.sent)
    /\ interruptFlags' = EnableTxSource(interruptFlags)
    /\ control' = interruptFlags'
    /\ icEnabled' = IrqEnable(icEnabled)
    /\ pc' = "ret"
    /\ UNCHANGED elapsedFrames
    /\ UNCHANGED <<lawVars, counterVars, platform, lang, icAccepts, rxQueue, errorMask, lastError, framePeriodUsec,
                   isrRegistered, op, outData, isrVars, rxFifo, hwErr, irqLatch,
                   rxServiced, rxGhost, rxArrived>>

\* write's all-or-nothing enqueue
WriteEffect_partial(q, buf) ==
    IF Queue_availableSize(q) >= Len(buf)
    THEN [q |-> Queue_pushAll(q, buf), rc |-> 0]
    ELSE [q |-> Queue_pushAll(q, SubSeq(buf, 1, Queue_availableSize(q))), rc |-> 1]

WriteEffect(q, buf) ==
    IF Queue_availableSize(q) >= Len(buf)
    THEN [q |-> Queue_pushAll(q, buf), rc |-> 0]
    ELSE [q |-> q, rc |-> 1]

NiosWriteBody(txB) ==
    /\ platform = "nios" /\ pc = "cs" /\ op = "write" /\ ~isrActive
    /\ \E data_buff \in BufChoices(txB) :
       LET e == WriteEffect(txQueue, data_buff)
           accepted == IF e.rc = 0 THEN data_buff ELSE <<>>
       IN /\ txQueue' = e.q
          /\ callSent' = <<>>
          /\ rc' = e.rc
          /\ arg' = [NoArg EXCEPT !.data = data_buff, !.count = Len(data_buff)]
          /\ \E mk \in MarkChoices(txGhost, accepted) :
                txGhost' = TxGhostAccept(txGhost, accepted, mk)
    /\ interruptFlags' = EnableTxSource(interruptFlags)
    /\ control' = interruptFlags'
    /\ icEnabled' = IrqEnable(icEnabled)
    /\ pc' = "ret"
    /\ UNCHANGED elapsedFrames
    /\ UNCHANGED <<lawVars, counterVars, platform, lang, icAccepts, rxQueue, errorMask, lastError, framePeriodUsec,
                   isrRegistered, op, outData, isrVars, txLevel, rxFifo, hwErr,
                   irqLatch, rxServiced, rxGhost, rxArrived>>

\* MbUart::writeToTxFifo: move queued bytes into the TX FIFO while it has room
RECURSIVE writeToTxFifo(_, _, _, _)
writeToTxFifo(q, level, sent, i) ==
    IF i >= MbFifoDepth \/ level >= MbFifoDepth \/ Queue_empty(q)
    THEN [q |-> q, level |-> level, sent |-> sent]
    ELSE writeToTxFifo(Queue_pop(q), level + 1, Append(sent, Queue_peek(q)), i + 1)

MbPutBody(txB) ==
    /\ platform = "mb" /\ pc = "cs" /\ op = "put" /\ ~isrActive
    /\ \E data \in txB :
       LET e == PutEffect("TX_FIFO_FULL" \notin MbStatus, txQueue, data)
           accepted == IF e.rc = 0 THEN <<data>> ELSE <<>>
       IN /\ txQueue' = e.q
          /\ txLevel' = IF e.sent # <<>> THEN HwTxWrite(txLevel) ELSE txLevel
          /\ callSent' = e.sent
          /\ rc' = e.rc
          /\ arg' = [NoArg EXCEPT !.data = <<data>>]
          /\ \E mk \in MarkChoices(txGhost, accepted) :
                txGhost' = TxGhostWriteAll(TxGhostAccept(txGhost, accepted, mk), e.sent)
    /\ hwErr' = {}
    /\ icEnabled' = IrqEnable(icEnabled)
    /\ pc' = "ret"
    /\ UNCHANGED elapsedFrames
    /\ UNCHANGED <<lawVars, counterVars, platform, lang, icAccepts, rxQueue, interruptFlags, errorMask, lastError,
                   framePeriodUsec, isrRegistered, op, outData, isrVars, control,
                   rxFifo, irqLatch, rxServiced, rxGhost, rxArrived>>

MbWriteBody(txB) ==
    /\ platform = "mb" /\ pc = "cs" /\ op = "write" /\ ~isrActive
    /\ \E data_buff \in BufChoices(txB) :
       LET e == WriteEffect(txQueue, data_buff)
           accepted == IF e.rc = 0 THEN data_buff ELSE <<>>
           w == writeToTxFifo(e.q, txLevel, <<>>, 0)
       IN /\ txQueue' = w.q
          /\ txLevel' = w.level
          /\ callSent' = w.sent
          /\ rc' = e.rc
          /\ arg' = [NoArg EXCEPT !.data = data_buff, !.count = Len(data_buff)]
          /\ \E mk \in MarkChoices(txGhost, accepted) :
                txGhost' = TxGhostWriteAll(TxGhostAccept(txGhost, accepted, mk), w.sent)
    /\ hwErr' = {}
    /\ icEnabled' = IrqEnable(icEnabled)
    /\ pc' = "ret"
    /\ UNCHANGED elapsedFrames
    /\ UNCHANGED <<lawVars, counterVars, platform, lang, icAccepts, rxQueue, interruptFlags, errorMask, lastError,
                   framePeriodUsec, isrRegistered, op, outData, isrVars, control,
                   rxFifo, irqLatch, rxServiced, rxGhost, rxArrived>>

\* -------------------------------------------------------------- flush
FlushCall ==
    /\ pc = "idle" /\ ~isrActive
    /\ op' = "flush" /\ pc' = "flush_loop" /\ arg' = NoArg /\ rc' = 1 /\ outData' = <<>>
    /\ callSent' = <<>>
    /\ icEnabled' = IrqDisable(icEnabled)
    /\ elapsedFrames' = 0
    /\ UNCHANGED <<lawVars, counterVars, platform, lang, icAccepts, txQueue, rxQueue, interruptFlags, errorMask,
                   lastError, framePeriodUsec, isrRegistered, isrVars, hwVars, ghostVars>>

\* the transmitter can take the next byte
TxReady ==
    IF platform = "nios" THEN "TRDY" \in NiosStatus ELSE "TX_FIFO_FULL" \notin MbStatus

\* the transmitter has sent everything it was given
TxComplete ==
    IF platform = "nios" THEN "TMT" \in NiosStatus ELSE "TX_FIFO_EMPTY" \in MbStatus

\* reading the UartLite status register clears its error bits
StatusReadErr == IF platform = "mb" THEN {} ELSE hwErr

\* the loop body popping before it reads the front
FlushSend_popFirst ==
    /\ pc = "flush_loop" /\ ~isrActive
    /\ ~Queue_empty(txQueue) /\ TxReady
    /\ txLevel' = HwTxWrite(txLevel)
    /\ txGhost' = TxGhostWrite(txGhost, Queue_peek(Queue_pop(txQueue)))
    /\ txQueue' = Queue_pop(txQueue)
    /\ callSent' = Append(callSent, Queue_peek(Queue_pop(txQueue)))
    /\ hwErr' = StatusReadErr
    /\ elapsedFrames' = 0
    /\ UNCHANGED <<lawVars, counterVars, platform, lang, icAccepts, rxQueue, interruptFlags, errorMask, lastError,
                   framePeriodUsec, icEnabled, isrRegistered, op, pc, arg, rc, outData, isrVars, control,
                   rxFifo, irqLatch, rxServiced, rxGhost, rxArrived>>

\* loop body: the wait succeeded, write the front byte and pop it
FlushSend ==
    /\ pc = "flush_loop" /\ ~isrActive
    /\ ~Queue_empty(txQueue) /\ TxReady
    /\ txLevel' = HwTxWrite(txLevel)
    /\ txGhost' = TxGhostWrite(txGhost, Queue_peek(txQueue))
    /\ txQueue' = Queue_pop(txQueue)
    /\ callSent' = Append(callSent, Queue_peek(txQueue))
    /\ hwErr' = StatusReadErr
    /\ elapsedFrames' = 0
    /\ UNCHANGED <<lawVars, counterVars, platform, lang, icAccepts, rxQueue, interruptFlags, errorMask, lastError,
                   framePeriodUsec, icEnabled, isrRegistered, op, pc, arg, rc, outData, isrVars, control,
                   rxFifo, irqLatch, rxServiced, rxGhost, rxArrived>>

\* the queue is empty (NiosUart: and TRDY was seen again): wait for completion
FlushDrained ==
    /\ pc = "flush_loop" /\ ~isrActive
    /\ Queue_empty(txQueue)
    /\ platform = "nios" => "TRDY" \in NiosStatus
    /\ pc' = "flush_tmt"
    /\ hwErr' = StatusReadErr
    /\ elapsedFrames' = 0
    /\ UNCHANGED <<lawVars, counterVars, platform, lang, icAccepts, swVars, op, arg, rc, outData, callSent, isrVars, control, txLevel,
                   rxFifo, irqLatch, ghostVars>>

\* flush returning 0 as soon as the queue is drained, without the wait for TMT
NiosFlushComplete_early ==
    /\ platform = "nios" /\ pc \in {"flush_loop", "flush_tmt"} /\ ~isrActive
    /\ Queue_empty(txQueue)
    /\ interruptFlags' = interruptFlags \ {"TRDY"}
    /\ control' = interruptFlags'
    /\ rc' = 0
    /\ icEnabled' = IrqEnable(icEnabled)
    /\ pc' = "ret" /\ arg' = NoArg
    /\ elapsedFrames' = 0
    /\ UNCHANGED <<lawVars, counterVars, platform, lang, icAccepts, txQueue, rxQueue, errorMask, lastError, framePeriodUsec,
                   isrRegistered, op, outData, callSent, isrVars, txLevel, rxFifo, hwErr,
                   irqLatch, ghostVars>>

\* NiosUart: TMT seen, the transmit-ready source is switched off; rc = 0
NiosFlushComplete ==
    /\ platform = "nios" /\ pc = "flush_tmt" /\ ~isrActive
    /\ "TMT" \in NiosStatus
    /\ interruptFlags' = interruptFlags \ {"TRDY"}
    /\ control' = interruptFlags'
    /\ rc' = 0
    /\ icEnabled' = IrqEnable(icEnabled)
    /\ pc' = "ret" /\ arg' = NoArg
    /\ elapsedFrames' = 0
    /\ UNCHANGED <<lawVars, counterVars, platform, lang, icAccepts, txQueue, rxQueue, errorMask, lastError, framePeriodUsec,
                   isrRegistered, op, outData, callSent, isrVars, txLevel, rxFifo, hwErr,
                   irqLatch, ghostVars>>

\* MbUart: TX FIFO empty seen, then one more frame period is waited; rc = 0
MbFlushComplete ==
    /\ platform = "mb" /\ pc = "flush_tmt" /\ ~isrActive
    /\ "TX_FIFO_EMPTY" \in MbStatus
    /\ hwErr' = {}
    /\ rc' = 0
    /\ icEnabled' = IrqEnable(icEnabled)
    /\ pc' = "ret" /\ arg' = NoArg
    /\ elapsedFrames' = 0
    /\ UNCHANGED <<lawVars, counterVars, platform, lang, icAccepts, txQueue, rxQueue, interruptFlags, errorMask, lastError,
                   framePeriodUsec, isrRegistered, op, outData, callSent, isrVars, control,
                   txLevel, rxFifo, irqLatch, ghostVars>>

\* FreeRunCounter::timeout, elapsed being diff_count(base_count, now); the flush's
\* waits count it in frame periods
FreeRunCounter_timeout_never(elapsed, timeout_count) == FALSE

FreeRunCounter_timeout_late(elapsed, timeout_count) == ~(elapsed <= timeout_count)

FreeRunCounter_timeout(elapsed, timeout_count) == ~(elapsed < timeout_count)

\* timeoutCount of the wait in progress, in frame periods: waitStatusReady and
\* waitTxFifoReady wait convertUsecToCount(framePeriodUsec), waitTxFifoEmpty
\* convertUsecToCount(framePeriodUsec * XUL_FIFO_SIZE)
timeoutCount == IF platform = "mb" /\ pc = "flush_tmt" THEN MbFifoDepth ELSE 1

\* the status the wait in progress polls for is absent
StatusAbsent ==
    \/ pc = "flush_loop" /\ ~Queue_empty(txQueue) /\ ~TxReady
    \/ pc = "flush_loop" /\ Queue_empty(txQueue) /\ platform = "nios" /\ ~TxReady
    \/ pc = "flush_tmt" /\ ~TxComplete

\* a wait timed out with the awaited status still absent: rc stays 1
FlushTimeout ==
    /\ ~isrActive
    /\ StatusAbsent
    /\ FreeRunCounter_timeout(elapsedFrames, timeoutCount)
    /\ hwErr' = StatusReadErr
    /\ icEnabled' = IrqEnable(icEnabled)
    /\ pc' = "ret" /\ arg' = NoArg
    /\ UNCHANGED <<lawVars, counterVars, platform, lang, icAccepts, txQueue, rxQueue, interruptFlags, errorMask, lastError,
                   framePeriodUsec, isrRegistered, op, rc, outData, callSent, elapsedFrames,
                   isrVars, control, txLevel, rxFifo, irqLatch, ghostVars>>

\* the free-running counter advances by one frame period while flush is waiting
CounterAdvance ==
    /\ pc \in {"flush_loop", "flush_tmt"} /\ ~isrActive
    /\ elapsedFrames < MbFifoDepth
    /\ elapsedFrames' = elapsedFrames + 1
    /\ UNCHANGED <<lawVars, counterVars, platform, lang, icAccepts, swVars, op, pc, arg, rc, outData, callSent, isrVars,
                   hwVars, ghostVars>>

\* -------------------------------------------------------------- setup
\* parameters outside the allow-list: return 1 before anything is touched
SetupReject(choices) ==
    /\ pc = "idle" /\ ~isrActive
    /\ \E p \in choices :
          /\ (IF platform = "nios" THEN NiosUart_validateSerialParams(p)
                                   ELSE MbUart_validateSerialParams(p)) # 0
          /\ arg' = [NoArg EXCEPT !.params = p]
    /\ op' = "setup" /\ pc' = "ret" /\ rc' = 1 /\ outData' = <<>>
    /\ callSent' = <<>>
    /\ UNCHANGED elapsedFrames
    /\ UNCHANGED <<lawVars, counterVars, platform, lang, icAccepts, swVars, isrVars, hwVars, ghostVars>>

SetupCall(choices) ==
    /\ pc = "idle" /\ ~isrActive
    /\ \E p \in choices :
          /\ (IF platform = "nios" THEN NiosUart_validateSerialParams(p)
                                   ELSE MbUart_validateSerialParams(p)) = 0
          /\ arg' = [NoArg EXCEPT !.params = p]
    /\ op' = "setup" /\ pc' = "cs" /\ rc' = 1 /\ outData' = <<>>
    /\ callSent' = <<>>
    /\ icEnabled' = IrqDisable(icEnabled)
    /\ UNCHANGED elapsedFrames
    /\ UNCHANGED <<lawVars, counterVars, platform, lang, icAccepts, txQueue, rxQueue, interruptFlags, errorMask,
                   lastError, framePeriodUsec, isrRegistered, isrVars, hwVars, ghostVars>>

\* NiosUart::setup up to alt_ic_isr_register inside setupInterrupt; registering a
\* handler leaves the line enabled at the controller
NiosSetupBody ==
    /\ platform = "nios" /\ pc = "cs" /\ op = "setup" /\ ~isrActive
    /\ icAccepts
    /\ framePeriodUsec' = calcFramePeriodUsec(arg.params)
    /\ txQueue' = Queue_clear(txQueue)
    /\ rxQueue' = Queue_clear(rxQueue)
    /\ lastError' = {}
    /\ control' = {}
    /\ interruptFlags' = NiosSources
    /\ errorMask' = ErrorBits
    /\ isrRegistered' = TRUE
    /\ icEnabled' = IrqEnable(icEnabled)
    /\ pc' = "setup_intr"
    /\ txGhost' = TxGhostReset(txGhost) /\ rxServiced' = <<>> /\ rxGhost' = RxGhostInit
    /\ rxArrived' = 0
    /\ UNCHANGED elapsedFrames
    /\ UNCHANGED <<lawVars, counterVars, platform, lang, icAccepts, op, arg, rc, outData, callSent, isrVars, txLevel, rxFifo, hwErr,
                   irqLatch>>

\* NiosUart::setup when alt_ic_isr_register fails: setupInterrupt returns 1 after the
\* control register was zeroed and the flags were made; setup does not look at that
\* result, enables the line and returns 0
NiosSetupUnregistered ==
    /\ platform = "nios" /\ pc = "cs" /\ op = "setup" /\ ~isrActive
    /\ ~icAccepts
    /\ framePeriodUsec' = calcFramePeriodUsec(arg.params)
    /\ txQueue' = Queue_clear(txQueue)
    /\ rxQueue' = Queue_clear(rxQueue)
    /\ lastError' = {}
    /\ control' = {}
    /\ interruptFlags' = NiosSources
    /\ errorMask' = ErrorBits
    /\ icEnabled' = IrqEnable(icEnabled)
    /\ rc' = 0
    /\ pc' = "ret" /\ arg' = NoArg
    /\ txGhost' = TxGhostReset(txGhost) /\ rxServiced' = <<>> /\ rxGhost' = RxGhostInit
    /\ rxArrived' = 0
    /\ UNCHANGED <<lawVars, counterVars, platform, lang, icAccepts, isrRegistered, op, outData, callSent,
                   elapsedFrames, isrVars, txLevel, rxFifo, hwErr, irqLatch>>

\* rest of setupInterrupt (line disabled, control and status written), then the
\* line is enabled and setup returns 0
NiosSetupFinish ==
    /\ platform = "nios" /\ pc = "setup_intr" /\ ~isrActive
    /\ control' = interruptFlags
    /\ hwErr' = {}
    /\ icEnabled' = IrqEnable(IrqDisable(icEnabled))
    /\ rc' = 0
    /\ pc' = "ret" /\ arg' = NoArg
    /\ UNCHANGED elapsedFrames
    /\ UNCHANGED <<lawVars, counterVars, platform, lang, icAccepts, txQueue, rxQueue, interruptFlags, errorMask, lastError,
                   framePeriodUsec, isrRegistered, op, outData, callSent, isrVars, txLevel,
                   rxFifo, irqLatch, ghostVars>>

\* MbUart::setup: both hardware FIFOs are reset and the device interrupt enabled
MbSetupBody ==
    /\ platform = "mb" /\ pc = "cs" /\ op = "setup" /\ ~isrActive
    /\ framePeriodUsec' = calcFramePeriodUsec(arg.params)
    /\ txQueue' = Queue_clear(txQueue)
    /\ rxQueue' = Queue_clear(rxQueue)
    /\ lastError' = {}
    /\ errorMask' = ErrorBits
    /\ rxFifo' = <<>> /\ txLevel' = 0
    /\ control' = {"ENABLE_INTR"}
    /\ isrRegistered' = TRUE
    /\ icEnabled' = IrqEnable(icEnabled)
    /\ rc' = 0
    /\ pc' = "ret" /\ arg' = NoArg
    /\ txGhost' = TxGhostReset(txGhost) /\ rxServiced' = <<>> /\ rxGhost' = RxGhostInit
    /\ rxArrived' = 0
    /\ UNCHANGED elapsedFrames
    /\ UNCHANGED <<lawVars, counterVars, platform, lang, icAccepts, interruptFlags, op, outData, callSent, isrVars, hwErr,
                   irqLatch>>

\* -------------------------------------------------- interrupt handler
\* lastError |= (status & errorMask)
LatchError_assign(last, status, mask) == status \cap mask

LatchError(last, status, mask) == last \cup (status \cap mask)

\* receiveInterrupt for one byte taken from the RX data register
RxStore_overwrite(q, last, byte) ==
    IF Queue_full(q)
    THEN [q |-> Queue_push(Queue_pop(q), byte), last |-> last \cup {"overrun"},
          kept |-> <<>>]
    ELSE [q |-> Queue_push(q, byte), last |-> last, kept |-> <<byte>>]

RxStore_silent(q, last, byte) ==
    IF Queue_full(q)
    THEN [q |-> q, last |-> last, kept |-> <<>>]
    ELSE [q |-> Queue_push(q, byte), last |-> last, kept |-> <<byte>>]

RxStore_always(q, last, byte) ==
    [q |-> Queue_push(q, byte), last |-> last, kept |-> <<byte>>]

RxStore(q, last, byte) ==
    IF Queue_full(q)
    THEN [q |-> q, last |-> last \cup {"overrun"}, kept |-> <<>>]
    ELSE [q |-> Queue_push(q, byte), last |-> last, kept |-> <<byte>>]

\* the arrival history is kept while no get/read has popped since the last clear
Serviced(hist, g, bs) == IF g.popped THEN hist ELSE hist \o bs

\* NiosUart::transmitInterrupt
NiosTransmit_off(q, flags) ==
    IF Queue_empty(q)
    THEN [q |-> q, flags |-> flags \ {"TRDY"}, sent |-> <<>>]
    ELSE [q |-> Queue_pop(q), flags |-> flags \ {"TRDY"}, sent |-> <<Queue_peek(q)>>]

NiosTransmit(q, flags) ==
    IF Queue_empty(q)
    THEN [q |-> q, flags |-> flags \ {"TRDY"}, sent |-> <<>>]
    ELSE [q |-> Queue_pop(q), flags |-> flags, sent |-> <<Queue_peek(q)>>]

\* the controller dispatches the handler; it reads the status register once
IsrEnter ==
    /\ ~isrActive /\ icEnabled /\ isrRegistered
    /\ IF platform = "nios" THEN NiosIrqAsserted ELSE MbIrqAsserted
    /\ isrActive' = TRUE
    /\ isrStatus' = (IF platform = "nios" THEN NiosStatus ELSE MbStatus)
    /\ hwErr' = StatusReadErr
    /\ UNCHANGED <<lawVars, counterVars, platform, lang, icAccepts, swVars, fgVars, control, txLevel, rxFifo, irqLatch,
                   ghostVars>>

NiosIsrBody ==
    /\ platform = "nios" /\ isrActive
    /\ LET err == isrStatus \cap errorMask
           last1 == IF err # {} THEN LatchError(lastError, isrStatus, errorMask)
                               ELSE lastError
           rx == IF "RRDY" \in isrStatus
                 THEN RxStore(rxQueue, last1, Head(rxFifo))
                 ELSE [q |-> rxQueue, last |-> last1, kept |-> <<>>]
           tx == IF "TRDY" \in isrStatus
                 THEN NiosTransmit(txQueue, interruptFlags)
                 ELSE [q |-> txQueue, flags |-> interruptFlags, sent |-> <<>>]
       IN /\ lastError' = rx.last
          /\ hwErr' = IF err # {} THEN {} ELSE hwErr
          /\ rxQueue' = rx.q
          /\ rxFifo' = IF "RRDY" \in isrStatus THEN <<>> ELSE rxFifo
          /\ rxServiced' = IF "RRDY" \in isrStatus
                           THEN Serviced(rxServiced, rxGhost, <<Head(rxFifo)>>)
                           ELSE rxServiced
          /\ rxGhost' = RxGhostStore(rxGhost, rx.kept)
          /\ txQueue' = tx.q
          /\ interruptFlags' = tx.flags
          /\ control' = IF "TRDY" \in isrStatus /\ Queue_empty(txQueue)
                        THEN tx.flags ELSE control
          /\ txLevel' = IF tx.sent # <<>> THEN HwTxWrite(txLevel) ELSE txLevel
          /\ txGhost' = TxGhostWriteAll(txGhost, tx.sent)
    /\ isrActive' = FALSE /\ isrStatus' = {}
    /\ UNCHANGED <<lawVars, counterVars, platform, lang, icAccepts, rxArrived, errorMask, framePeriodUsec, icEnabled, isrRegistered,
                   fgVars, irqLatch>>

\* MbUart::receiveInterrupt: drain the RX FIFO, at most FIFO-size bytes
RECURSIVE MbReceive(_, _, _, _, _)
MbReceive(q, last, fifo, kept, i) ==
    IF i >= MbFifoDepth \/ fifo = <<>>
    THEN [q |-> q, last |-> last, fifo |-> fifo, kept |-> kept]
    ELSE LET r == RxStore(q, last, Head(fifo))
         IN MbReceive(r.q, r.last, Tail(fifo), kept \o r.kept, i + 1)

\* the handler's error branch returns at once in mb_uart.cpp and falls through
\* to the receive/transmit steps in mb_uart.c
MbErrorReturns == lang = "cpp"

\* the control register after the error branch: mb_uart.cpp re-enables the device
\* interrupt after the RX FIFO reset, mb_uart.c writes the reset bit only
MbErrorControl == IF lang = "cpp" THEN {"ENABLE_INTR"} ELSE {}

MbIsrBody ==
    /\ platform = "mb" /\ isrActive
    /\ LET err == isrStatus \cap errorMask
           last1 == IF err # {} THEN LatchError(lastError, isrStatus, errorMask)
                               ELSE lastError
           fifo1 == IF err # {} THEN <<>> ELSE rxFifo
           done == err # {} /\ MbErrorReturns
           rx == IF ~done /\ "RX_FIFO_VALID_DATA" \in isrStatus
                 THEN MbReceive(rxQueue, last1, fifo1, <<>>, 0)
                 ELSE [q |-> rxQueue, last |-> last1, fifo |-> fifo1, kept |-> <<>>]
           tx == IF ~done /\ "TX_FIFO_FULL" \notin isrStatus
                 THEN writeToTxFifo(txQueue, txLevel, <<>>, 0)
                 ELSE [q |-> txQueue, level |-> txLevel, sent |-> <<>>]
           taken == SubSeq(fifo1, 1, Len(fifo1) - Len(rx.fifo))
       IN /\ lastError' = rx.last
          /\ control' = IF err # {} THEN MbErrorControl ELSE control
          /\ rxQueue' = rx.q
          /\ rxFifo' = rx.fifo
          /\ rxServiced' = Serviced(rxServiced, rxGhost, taken)
          /\ rxGhost' = RxGhostStore(rxGhost, rx.kept)
          /\ txQueue' = tx.q
          /\ txLevel' = tx.level
          /\ txGhost' = TxGhostWriteAll(txGhost, tx.sent)
          /\ hwErr' = IF ~done THEN {} ELSE hwErr
          /\ irqLatch' = IF done THEN irqLatch ELSE FALSE
    /\ isrActive' = FALSE /\ isrStatus' = {}
    /\ UNCHANGED <<lawVars, counterVars, platform, lang, icAccepts, rxArrived, interruptFlags, errorMask, framePeriodUsec, icEnabled,
                   isrRegistered, fgVars>>

\* ------------------------------------------------------------ hardware
\* the transmitter finishes shifting a byte out; the UartLite raises its
\* interrupt when the TX FIFO runs empty
HwTxDone ==
    /\ ~isrActive /\ txLevel > 0
    /\ txLevel' = txLevel - 1
    /\ irqLatch' = IF platform = "mb" /\ txLevel = 1 /\ "ENABLE_INTR" \in control
                   THEN TRUE ELSE irqLatch
    /\ UNCHANGED <<lawVars, counterVars, platform, lang, icAccepts, swVars, fgVars, isrVars, control, rxFifo, hwErr,
                   ghostVars>>

\* a byte arrives on the line, possibly with a parity or framing error; a byte
\* the receiver has no room for raises the hardware overrun bit
HwRxArrive(rxB, errs, cap) ==
    /\ ~isrActive
    /\ rxArrived < cap
    /\ rxArrived' = rxArrived + 1
    /\ \E b \in rxB, e \in {{}} \cup {{x} : x \in errs} :
          IF platform = "nios"
          THEN /\ rxFifo' = <<b>>
               /\ hwErr' = hwErr \cup e \cup (IF rxFifo # <<>> THEN {"overrun"} ELSE {})
          ELSE /\ rxFifo' = IF Len(rxFifo) < MbFifoDepth THEN Append(rxFifo, b) ELSE rxFifo
               /\ hwErr' = hwErr \cup e
                            \cup (IF Len(rxFifo) < MbFifoDepth THEN {} ELSE {"overrun"})
    /\ UNCHANGED <<lawVars, counterVars, platform, lang, icAccepts, swVars, fgVars, isrVars, control, txLevel, irqLatch,
                   txGhost, rxServiced, rxGhost>>

\* ------------------------------------------------------- specification
LineErrors == {"parity", "framing"}

\* the groups of operations, by the state they work on
TxOps(txB) ==
    \/ PutCall \/ WriteCall \/ FlushCall
    \/ NiosPutBody(txB) \/ NiosWriteBody(txB) \/ MbPutBody(txB) \/ MbWriteBody(txB)
    \/ FlushSend \/ FlushDrained \/ NiosFlushComplete \/ MbFlushComplete \/ FlushTimeout
    \/ CounterAdvance

RxOps(rxB) == GetCall(rxB) \/ ReadCall \/ GetBody \/ ReadBody

ErrOps(errs) == QueryCall(errs) \/ QueryBody

ResetOps ==
    \/ ClearCall \/ ClearBody
    \/ SetupReject(ParamChoices) \/ SetupCall(ParamChoices) \/ NiosSetupBody \/ NiosSetupFinish \/ MbSetupBody

Isr == IsrEnter \/ NiosIsrBody \/ MbIsrBody

\* every operation of the transport, the handler and the hardware: callers send
\* bytes of txB, the line delivers bytes of rxB with the line errors of errs
Next ==
    \/ TxOps(Bytes) \/ RxOps(Bytes) \/ ErrOps(LineErrors) \/ ResetOps \/ Return
    \/ Isr \/ HwTxDone \/ HwRxArrive(Bytes, LineErrors, MaxArrivals)

Spec == Init /\ [][Next]_vars

\* the transmit path: put, write, flush, clear and setup against the handler and
\* the transmitter, the line delivering frames that may carry a framing error
NextTx ==
    \/ TxOps(Bytes) \/ ResetOps \/ Return
    \/ Isr \/ HwTxDone \/ HwRxArrive({0}, {"framing"}, FewArrivals)

SpecTx == Init /\ [][NextTx]_vars

\* put and write alone against the handler and the transmitter: every combination
\* of transmitter state and TX queue content a put can find is reached
NextPut ==
    \/ PutCall \/ WriteCall
    \/ NiosPutBody(Bytes) \/ NiosWriteBody(Bytes) \/ MbPutBody(Bytes) \/ MbWriteBody(Bytes)
    \/ Return \/ Isr \/ HwTxDone

SpecPut == Init /\ [][NextPut]_vars

\* the receive path: get, read, clear and setup against the handler and the receiver
NextRx ==
    \/ RxOps(Bytes) \/ ResetOps \/ Return
    \/ Isr \/ HwRxArrive(Bytes, {"framing"}, MaxArrivals)

SpecRx == Init /\ [][NextRx]_vars

\* the latched errors: get, read, the error queries, clear and setup against the
\* handler and a line with every kind of error, one byte value
NextErr ==
    \/ RxOps({0}) \/ ErrOps(LineErrors) \/ ResetOps \/ Return
    \/ Isr \/ HwRxArrive({0}, LineErrors, MaxArrivals)

SpecErr == Init /\ [][NextErr]_vars

\* the critical sections: every operation, one byte value, an error-free line
NextCs ==
    \/ TxOps({0}) \/ RxOps({0}) \/ ErrOps({}) \/ ResetOps \/ Return
    \/ Isr \/ HwTxDone \/ HwRxArrive({0}, {}, MaxArrivals)

SpecCs == Init /\ [][NextCs]_vars

\* a FixedQueue on its own: constructed with any capacity from 1, then pushed when not
\* full, popped when not empty and cleared in any order (the callers' preconditions);
\* the transport stands idle
InitQueue ==
    /\ \E size_max \in 1..QueueSizeMax : queue = FixedQueue(size_max)
    /\ CounterUnused
    /\ pushHistory = <<>> /\ popCount = 0
    /\ platform = "nios" /\ lang = "cpp" /\ icAccepts = TRUE
    /\ txQueue = FixedQueue(TxCap)
    /\ rxQueue = FixedQueue(RxCap)
    /\ interruptFlags = NiosSources
    /\ errorMask = ErrorBits
    /\ lastError = {}
    /\ framePeriodUsec = calcFramePeriodUsec(DefaultParams)
    /\ icEnabled = TRUE
    /\ isrRegistered = TRUE
    /\ op = "none" /\ pc = "idle" /\ arg = NoArg /\ rc = 0 /\ outData = <<>>
    /\ callSent = <<>> /\ elapsedFrames = 0
    /\ isrActive = FALSE /\ isrStatus = {}
    /\ control = NiosSources
    /\ txLevel = 0 /\ rxFifo = <<>> /\ hwErr = {} /\ irqLatch = FALSE
    /\ txGhost = [pending |-> <<>>, ok |-> TRUE, mark |-> 0, track |-> FALSE]
    /\ rxServiced = <<>> /\ rxGhost = RxGhostInit /\ rxArrived = 0

QueuePush ==
    /\ ~Queue_full(queue) /\ Len(pushHistory) < MaxPushes
    /\ \E element \in Bytes :
          /\ queue' = Queue_push(queue, element)
          /\ pushHistory' = Append(pushHistory, element)
    /\ UNCHANGED <<popCount, transportVars, counterVars>>

QueuePop ==
    /\ ~Queue_empty(queue)
    /\ queue' = Queue_pop(queue)
    /\ popCount' = popCount + 1
    /\ UNCHANGED <<pushHistory, transportVars, counterVars>>

QueueClear ==
    /\ queue' = Queue_clear(queue)
    /\ pushHistory' = <<>> /\ popCount' = 0
    /\ UNCHANGED <<transportVars, counterVars>>

NextQueue == QueuePush \/ QueuePop \/ QueueClear

SpecQueue == InitQueue /\ [][NextQueue]_vars

\* ------------------------------------------------- FreeRunCounter on its own
\* the transport and the stand-alone queue while the counter is followed
TransportUnused ==
    /\ platform = "nios" /\ lang = "cpp" /\ icAccepts = TRUE
    /\ txQueue = FixedQueue(TxCap)
    /\ rxQueue = FixedQueue(RxCap)
    /\ interruptFlags = NiosSources
    /\ errorMask = ErrorBits
    /\ lastError = {}
    /\ framePeriodUsec = calcFramePeriodUsec(DefaultParams)
    /\ icEnabled = TRUE
    /\ isrRegistered = TRUE
    /\ op = "none" /\ pc = "idle" /\ arg = NoArg /\ rc = 0 /\ outData = <<>>
    /\ callSent = <<>> /\ elapsedFrames = 0
    /\ isrActive = FALSE /\ isrStatus = {}
    /\ control = NiosSources
    /\ txLevel = 0 /\ rxFifo = <<>> /\ hwErr = {} /\ irqLatch = FALSE
    /\ txGhost = [pending |-> <<>>, ok |-> TRUE, mark |-> 0, track |-> FALSE]
    /\ rxServiced = <<>> /\ rxGhost = RxGhostInit /\ rxArrived = 0

\* the counter after construction: the timer was set up with load value 0xFFFFFFFF
\* in the build's count method and started; the caller's first reading is taken at once
TimerStart(method) == IF method = "up" THEN 0 ELSE UINT32_MAX

InitFrc(methods, frequencies) ==
    /\ TransportUnused /\ QueueUnused
    /\ NiosTimerUnused
    /\ countMethod \in methods
    /\ frequency \in frequencies
    /\ counter = TimerStart(countMethod)
    /\ frcTimer = FrcConstructed(countMethod)
    /\ base_count = counter /\ elapsedCounts = 0
    /\ \E x \in 0..UINT32_MAX : frcCall = [NoFrcCall EXCEPT !.input = x]

\* the timer counts once, wrapping at the ends of the word; the history stops short of
\* a whole turn of the counter
TimerCount ==
    /\ frcTimer.running
    /\ elapsedCounts < UINT32_MAX
    /\ counter' = (IF countMethod = "up" THEN U32(counter + 1) ELSE U32(counter - 1))
    /\ elapsedCounts' = elapsedCounts + 1
    /\ UNCHANGED <<niosTimer, frcTimer, countMethod, frequency, base_count, frcCall, transportVars, lawVars>>

now == counter

\* a caller takes a new base reading
ReadBase ==
    /\ base_count' = now
    /\ elapsedCounts' = 0
    /\ UNCHANGED <<niosTimer, frcTimer, countMethod, frequency, counter, frcCall, transportVars, lawVars>>

\* timeout(base_count, timeout_count), timeout_count being the caller's argument
TimeoutCall ==
    /\ frcCall' = [name |-> "timeout", unit |-> "count", input |-> frcCall.input,
                   passed |-> TRUE,
                   value |-> IF FreeRunCounter_timeout(
                                    diff_count(countMethod, base_count, now),
                                    frcCall.input)
                             THEN 1 ELSE 0]
    /\ UNCHANGED <<niosTimer, frcTimer, countMethod, frequency, counter, base_count, elapsedCounts,
                   transportVars, lawVars>>

InitCounter == InitFrc({"up", "down"}, {kUSEC_PER_SEC})

NextCounter == TimerCount \/ ReadBase \/ TimeoutCall

SpecCounter == InitCounter /\ [][NextCounter]_vars

\* convertXToCount(x), x being the caller's argument: the assertion, then the
\* conversion; a failed assertion is fatal and nothing is returned
ConvertCall ==
    /\ \E unit \in Units :
          \E limit \in GuardLimit(FreeRunCounter(frequency), unit) :
             frcCall' = [name |-> "convert", unit |-> unit, input |-> frcCall.input,
                         passed |-> frcCall.input < limit,
                         value |-> IF frcCall.input < limit
                                   THEN convertToCount(FreeRunCounter(frequency), unit,
                                                       frcCall.input)
                                   ELSE 0]
    /\ UNCHANGED <<niosTimer, frcTimer, countMethod, frequency, counter, base_count, elapsedCounts,
                   transportVars, lawVars>>

\* waitX(x): the same assertion, a base reading, the same conversion, and the loop,
\* which returns at the first reading at least timeoutCount (waitCount) counts after
\* the base
WaitCall ==
    /\ \E unit \in Units :
          \E limit \in GuardLimit(FreeRunCounter(frequency), unit) :
             LET waitCount == convertToCount(FreeRunCounter(frequency), unit,
                                             frcCall.input)
             IN  /\ frcCall' = [name |-> "wait", unit |-> unit, input |-> frcCall.input,
                                passed |-> frcCall.input < limit,
                                value |-> IF frcCall.input < limit THEN waitCount ELSE 0]
                 /\ IF frcCall.input < limit
                    THEN /\ base_count' = now
                         /\ elapsedCounts' = waitCount
                         /\ counter' = (IF countMethod = "up"
                                        THEN U32(counter + waitCount)
                                        ELSE U32(counter - waitCount))
                    ELSE UNCHANGED <<base_count, elapsedCounts, counter>>
    /\ UNCHANGED <<niosTimer, frcTimer, countMethod, frequency, transportVars, lawVars>>

InitConvert == InitFrc({"down"}, 1..UINT32_MAX)

NextConvert == ConvertCall \/ WaitCall

SpecConvert == InitConvert /\ [][NextConvert]_vars

\* measureDurationX(base_count, now()): the duration since the caller's base reading,
\* here the reading taken when the timer was started
MeasureCall ==
    /\ \E unit \in Units :
          LET diffCount == diff_count(countMethod, base_count, now)
          IN  \E duration \in measureDuration(FreeRunCounter(frequency), unit, diffCount) :
                 frcCall' = [name |-> "measure", unit |-> unit, input |-> diffCount,
                             passed |-> TRUE, value |-> duration]
    /\ UNCHANGED <<niosTimer, frcTimer, countMethod, frequency, counter, base_count, elapsedCounts,
                   transportVars, lawVars>>

InitMeasure ==
    /\ InitFrc({"up", "down"}, 1..UINT32_MAX)
    /\ frcCall = NoFrcCall

NextMeasure == TimerCount \/ MeasureCall

SpecMeasure == InitMeasure /\ [][NextMeasure]_vars

\* waitX(x) step by step.  Entry: the assertion, the base reading and timeoutCount
\* (frcCall.value); a failed assertion is fatal and nothing is waited
WaitEnter ==
    /\ frcCall.name # "waiting"
    /\ \E unit \in Units :
          \E limit \in GuardLimit(FreeRunCounter(frequency), unit) :
             IF frcCall.input < limit
             THEN /\ frcCall' = [name |-> "waiting", unit |-> unit,
                                 input |-> frcCall.input, passed |-> TRUE,
                                 value |-> convertToCount(FreeRunCounter(frequency), unit,
                                                          frcCall.input)]
                  /\ base_count' = now
                  /\ elapsedCounts' = 0
             ELSE /\ frcCall' = [name |-> "wait", unit |-> unit, input |-> frcCall.input,
                                 passed |-> FALSE, value |-> 0]
                  /\ UNCHANGED <<base_count, elapsedCounts>>
    /\ UNCHANGED <<niosTimer, frcTimer, countMethod, frequency, counter, transportVars, lawVars>>

\* the loop's condition on one reading of the counter
WaitExpired_any(diff, timeout_count) == TRUE

WaitExpired(diff, timeout_count) == ~(diff < timeout_count)

\* the reading that ends the loop; a reading that does not end it changes nothing
WaitReturn ==
    /\ frcCall.name = "waiting"
    /\ WaitExpired(diff_count(countMethod, base_count, now), frcCall.value)
    /\ frcCall' = [frcCall EXCEPT !.name = "wait"]
    /\ UNCHANGED <<niosTimer, frcTimer, countMethod, frequency, counter, base_count, elapsedCounts,
                   transportVars, lawVars>>

InitWait == InitFrc({"up", "down"}, {kUSEC_PER_SEC})

NextWait == WaitEnter \/ TimerCount \/ WaitReturn

\* the timer keeps counting, and the loop keeps reading it: the history stops short
\* of a whole turn, so a reading is taken while the elapsed count is in
\* [timeoutCount, 2^32)
FairWait == WF_vars(TimerCount) /\ WF_vars(WaitReturn)

SpecWait == InitWait /\ [][NextWait]_vars /\ FairWait

\* ------------------------------------------- FreeRunCounter::getInstance
\* before the first getInstance: nothing was done to the timer
FrcUnconstructed ==
    [initialized |-> FALSE, halted |-> FALSE, setups |-> 0, starts |-> 0,
     running |-> FALSE, config |-> "none"]

\* getInstance runs the constructor unless one has completed
ctorNeeded_always(t) == TRUE

ctorNeeded(t) == ~t.initialized

\* the ways the constructor ends: it completes, or the factory gives no timer,
\* Timer_setup refuses the parameters, or the started timer is not seen counting;
\* every failure is fatal (DYNAMIC_STOP_)
CtorOutcomes == {"done", "no_timer", "setup_refused", "not_counting"}

GetInstance ==
    /\ ~frcTimer.halted
    /\ IF ctorNeeded(frcTimer)
       THEN \E outcome \in CtorOutcomes :
               /\ frcTimer' =
                     [initialized |-> outcome = "done",
                      halted |-> outcome # "done",
                      setups |-> frcTimer.setups + (IF outcome = "no_timer" THEN 0 ELSE 1),
                      starts |-> frcTimer.starts
                                    + (IF outcome \in {"done", "not_counting"} THEN 1 ELSE 0),
                      running |-> outcome = "done",
                      config |-> IF outcome \in {"done", "not_counting"}
                                 THEN [method |-> countMethod, reload |-> TRUE,
                                       loadCountValue |-> UINT32_MAX]
                                 ELSE frcTimer.config]
               /\ counter' = TimerStart(countMethod)
               /\ base_count' = TimerStart(countMethod)
               /\ elapsedCounts' = 0
       ELSE UNCHANGED <<frcTimer, counter, base_count, elapsedCounts>>
    /\ frcCall' = [NoFrcCall EXCEPT !.name = "getInstance"]
    /\ UNCHANGED <<niosTimer, countMethod, frequency, transportVars, lawVars>>

\* the operations a caller reaches through the instance
InstanceOps ==
    /\ frcTimer.initialized
    /\ (ReadBase \/ TimeoutCall \/ ConvertCall \/ WaitCall \/ MeasureCall)

InitInstance ==
    /\ TransportUnused /\ QueueUnused
    /\ NiosTimerUnused
    /\ countMethod \in {"up", "down"}
    /\ frequency = kUSEC_PER_SEC
    /\ counter = 0 /\ base_count = 0 /\ elapsedCounts = 0
    /\ frcCall = NoFrcCall
    /\ frcTimer = FrcUnconstructed

NextInstance == GetInstance \/ InstanceOps \/ TimerCount

SpecInstance == InitInstance /\ [][NextInstance]_vars

\* --------------------------------------------------- NiosTimer on its own
\* a timer is created: NiosTimer_create / the two-argument constructor pass
\* kINVALID_VALUE for ic_id and irq, the WithInterrupt forms pass the line's
NiosTimerCreate ==
    /\ niosTimer.state = "none"
    /\ \E ic_id \in {kINVALID_VALUE, 0} :
          niosTimer' = [NiosTimer_ctor(niosTimer, ic_id) EXCEPT !.lastOp = "create"]
    /\ UNCHANGED <<frcTimer, countMethod, frequency, counter, base_count, elapsedCounts,
                   frcCall, transportVars, lawVars>>

NiosTimerSetup ==
    /\ niosTimer.state = "ready"
    /\ \E method \in {"up", "down"}, reload \in BOOLEAN :
          niosTimer' = [NiosTimer_setup(niosTimer, method, reload) EXCEPT !.lastOp = "setup"]
    /\ UNCHANGED <<frcTimer, countMethod, frequency, counter, base_count, elapsedCounts,
                   frcCall, transportVars, lawVars>>

NiosTimerSetupInterrupt ==
    /\ niosTimer.state = "ready"
    /\ niosTimer' = [NiosTimer_setupInterrupt(niosTimer) EXCEPT !.lastOp = "setupInterrupt"]
    /\ UNCHANGED <<frcTimer, countMethod, frequency, counter, base_count, elapsedCounts,
                   frcCall, transportVars, lawVars>>

NiosTimerEnableInterrupt ==
    /\ niosTimer.state = "ready"
    /\ niosTimer' = [NiosTimer_switchInterrupt(niosTimer) EXCEPT !.lastOp = "enableInterrupt"]
    /\ UNCHANGED <<frcTimer, countMethod, frequency, counter, base_count, elapsedCounts,
                   frcCall, transportVars, lawVars>>

NiosTimerDisableInterrupt ==
    /\ niosTimer.state = "ready"
    /\ niosTimer' = [NiosTimer_switchInterrupt(niosTimer) EXCEPT !.lastOp = "disableInterrupt"]
    /\ UNCHANGED <<frcTimer, countMethod, frequency, counter, base_count, elapsedCounts,
                   frcCall, transportVars, lawVars>>

\* either binding, in a build whose assertions halt or one without them
InitNiosTimer ==
    /\ TransportUnused /\ QueueUnused /\ FrcUnused
    /\ \E binding \in {"c", "cpp"}, assertsHalt \in BOOLEAN :
          niosTimer = [NiosTimerNone EXCEPT !.binding = binding,
                                            !.assertsHalt = assertsHalt]

NextNiosTimer ==
    \/ NiosTimerCreate \/ NiosTimerSetup \/ NiosTimerSetupInterrupt
    \/ NiosTimerEnableInterrupt \/ NiosTimerDisableInterrupt

SpecNiosTimer == InitNiosTimer /\ [][NextNiosTimer]_vars

\* flush against a transmitter that may stall at any point: nothing obliges the
\* hardware to finish a byte, while the free-running counter keeps advancing and a
\* flush that can take a step takes it
FlushStep ==
    FlushSend \/ FlushDrained \/ NiosFlushComplete \/ MbFlushComplete \/ FlushTimeout

NextFlush ==
    \/ PutCall \/ NiosPutBody({0}) \/ MbPutBody({0})
    \/ FlushCall \/ FlushStep \/ CounterAdvance \/ Return
    \/ Isr \/ HwTxDone

FairFlush == WF_vars(CounterAdvance) /\ WF_vars(FlushStep)

SpecFlush == Init /\ [][NextFlush]_vars /\ FairFlush

\* setup against a transport in use, with every kind of parameter set, on instances
\* whose interrupt line the controller accepts and on a NiosUart whose line it refuses
NextSetup ==
    \/ PutCall \/ NiosPutBody({0}) \/ MbPutBody({0})
    \/ SetupReject(SetupParams) \/ SetupCall(SetupParams)
    \/ NiosSetupBody \/ NiosSetupFinish \/ NiosSetupUnregistered \/ MbSetupBody
    \/ Return
    \/ Isr \/ HwTxDone \/ HwRxArrive({0}, {"framing"}, FewArrivals)

InitSetup == Init \/ InitRefused

SpecSetup == InitSetup /\ [][NextSetup]_vars

\* clear against a transport in use: put fills the TX side, the handler fills the RX
\* side from a line with every kind of error
NextClear ==
    \/ PutCall \/ NiosPutBody({0}) \/ MbPutBody({0})
    \/ ClearCall \/ ClearBody \/ Return
    \/ Isr \/ HwTxDone \/ HwRxArrive({0}, LineErrors, MaxArrivals)

SpecClear == Init /\ [][NextClear]_vars

\* the interrupt-driven transmit path without clear, setup and flush: put and write
\* against the handler and the hardware. The transmitter keeps shifting bytes out,
\* a requested interrupt is dispatched whenever the line is enabled again and
\* again, and a handler or a critical section that has started runs to its end.
InitLive == InitWith(TRUE)

NextLive ==
    \/ PutCall \/ WriteCall
    \/ NiosPutBody({0}) \/ NiosWriteBody({0}) \/ MbPutBody({0}) \/ MbWriteBody({0})
    \/ Return
    \/ Isr \/ HwTxDone \/ HwRxArrive({0}, {"framing"}, FewArrivals)

FairLive ==
    /\ SF_vars(HwTxDone)
    /\ SF_vars(IsrEnter)
    /\ WF_vars(NiosIsrBody \/ MbIsrBody)
    /\ WF_vars(NiosPutBody({0}) \/ NiosWriteBody({0}) \/ MbPutBody({0})
                  \/ MbWriteBody({0}))

SpecLive == InitLive /\ [][NextLive]_vars /\ FairLive

\* ------------------------------------------------------------ properties
\* steps of the foreground calls and of the handler
PutStep == pc = "cs" /\ op = "put" /\ pc' = "ret"

GetStep == pc = "cs" /\ op = "get" /\ pc' = "ret"

ClearStep == pc = "cs" /\ op = "clear" /\ pc' = "ret"

SetupStep == pc = "cs" /\ op = "setup" /\ pc' # "cs"

HandlerStep == isrActive /\ ~isrActive'

CsOps == {"get", "put", "read", "write", "clear", "flush", "query"}

InCriticalSection == pc \in {"cs", "flush_loop", "flush_tmt"} /\ op \in CsOps

IrqAsserted == IF platform = "nios" THEN NiosIrqAsserted ELSE MbIrqAsserted

\* C1: every byte written to the TX data register is the oldest byte accepted by a
\* successful put/write and not yet written (since the last clear/setup), and the
\* accepted bytes not yet written are exactly the TX queue's content in order: the
\* bytes reach the hardware in call order, none reordered, duplicated or skipped.
C1_TxFifoOrder == txGhost.ok /\ txGhost.pending = QueueContents(txQueue)

\* a put took the rotate path: it wrote the older byte and queued a different one
C1_Witness ==
    /\ pc = "ret" /\ op = "put" /\ rc = 0 /\ callSent # <<>>
    /\ ~Queue_empty(txQueue)
    /\ QueueContents(txQueue)[Queue_size(txQueue)] # callSent[1]

\* C2: the handler is never executing while get, put, read, write, clear, flush or
\* an error query is between its interrupt disable and its interrupt enable.
C2_MutualExclusion == ~(InCriticalSection /\ isrActive)

\* the device requests an interrupt while a call is inside its critical section
C2_Witness == InCriticalSection /\ op = "get" /\ IrqAsserted /\ isrRegistered

\* C3: while no get/read has taken a byte since the last clear/setup, the RX queue
\* holds the first RxCap bytes the handler read from the receiver, in arrival order
\* (a byte serviced with the queue full is read and dropped, the queue unchanged),
\* the overrun flag is set once more than RxCap bytes were serviced, and clear()
\* leaves no error flag set.
C3_Overrun ==
    /\ [](~rxGhost.popped =>
            /\ QueueContents(rxQueue) = SubSeq(rxServiced, 1, Min(RxCap, Len(rxServiced)))
            /\ Len(rxServiced) > RxCap => "overrun" \in lastError)
    /\ [][ClearStep => lastError' = {}]_vars

\* RxCap + 1 bytes were serviced, the last one differing from the first
C3_Witness ==
    /\ ~rxGhost.popped /\ Len(rxServiced) = RxCap + 1
    /\ rxServiced[RxCap + 1] # rxServiced[1]
    /\ Queue_full(rxQueue) /\ "overrun" \in lastError

\* C4 as stated: a set error flag stays set across every step that is not clear(),
\* and an error query returns whether its flag is set.
C4_StickyUntilClear ==
    [][/\ (\A f \in lastError : f \in lastError') \/ ClearStep
       /\ (pc = "cs" /\ op = "query" /\ pc' = "ret")
             => (rc' = 1 <=> arg.which \in lastError)]_vars

\* C4 amended: a set error flag stays set across every step that is neither clear()
\* nor a setup() that passed validation, and an error query returns whether its flag
\* is set.
C4_StickyUntilClearOrSetup ==
    [][/\ (\A f \in lastError : f \in lastError') \/ ClearStep \/ SetupStep
       /\ (pc = "cs" /\ op = "query" /\ pc' = "ret")
             => (rc' = 1 <=> arg.which \in lastError)]_vars

\* a query returned true with all three flags latched
C4_Witness == pc = "ret" /\ op = "query" /\ rc = 1 /\ lastError = ErrorBits

\* the parts of C5 that do not depend on who switches the source off: outside the
\* critical sections and the handler a non-empty TX queue has TRDY in
\* interruptFlags, and a handler that services transmit-ready with a non-empty TX
\* queue writes exactly the front byte and pops it
C5_Enabled ==
    (platform = "nios" /\ pc \in {"idle", "ret"} /\ ~isrActive /\ ~Queue_empty(txQueue))
        => "TRDY" \in interruptFlags

C5_HandlerSends ==
    (platform = "nios" /\ HandlerStep /\ "TRDY" \in isrStatus /\ ~Queue_empty(txQueue))
        => /\ txLevel' = txLevel + 1
           /\ txGhost'.ok /\ txGhost.pending # <<>>
           /\ txGhost'.pending = Tail(txGhost.pending)
           /\ QueueContents(txQueue') = Tail(QueueContents(txQueue))

C5_OffByHandler ==
    HandlerStep /\ Queue_empty(txQueue) /\ txLevel' = txLevel /\ txQueue' = txQueue

C5_OffByFlush == pc = "flush_tmt" /\ op = "flush" /\ pc' = "ret" /\ rc' = 0

C5_SwitchedOff == "TRDY" \in interruptFlags /\ "TRDY" \notin interruptFlags'

\* C5 as stated (NiosUart): outside the critical sections and the handler a
\* non-empty TX queue implies TRDY in interruptFlags; the source is switched off
\* only by the handler finding the TX queue empty or by a successful flush; the
\* handler finding the TX queue non-empty writes exactly the front byte and pops it.
C5_TxSource ==
    /\ []C5_Enabled
    /\ [][/\ C5_HandlerSends
          /\ (platform = "nios" /\ C5_SwitchedOff) => (C5_OffByHandler \/ C5_OffByFlush)]_vars

\* C5 amended (NiosUart): as C5, the source being switched off only by the handler
\* finding the TX queue empty, by a successful flush or by a setup() that passed
\* validation.
C5_TxSourceOrSetup ==
    /\ []C5_Enabled
    /\ [][/\ C5_HandlerSends
          /\ (platform = "nios" /\ C5_SwitchedOff)
                => (C5_OffByHandler \/ C5_OffByFlush \/ SetupStep)]_vars

\* two bytes are queued behind a busy transmitter with the source enabled
C5_Witness ==
    /\ platform = "nios" /\ pc = "idle" /\ ~isrActive
    /\ Queue_full(txQueue) /\ txLevel = 2 /\ "TRDY" \in interruptFlags

\* C6: with the transmitter shifting bytes out, pending interrupts dispatched and
\* no clear/setup, every byte accepted by a successful put or write is eventually
\* written to the TX data register (the followed byte leaves the pending history).
C6_TxLiveness == (txGhost.mark > 0) ~> (txGhost.mark = 0)

\* the same for the bindings whose handler keeps the device interrupt enabled
C6_TxLivenessEnabled ==
    (txGhost.mark > 0 /\ ~(platform = "mb" /\ lang = "c")) ~> (txGhost.mark = 0)

\* C7: put fails exactly when the transmitter is not ready and the TX queue is full,
\* and a failed put writes nothing to the transmitter and leaves the TX queue as it was.
C7_PutFailure ==
    [][PutStep =>
          /\ rc' = 1 <=> (~TxReady /\ Queue_full(txQueue))
          /\ rc' = 1 => (callSent' = <<>> /\ txLevel' = txLevel /\ txQueue' = txQueue)]_vars

\* a put has failed against a full queue and a busy transmitter
C7_Witness ==
    /\ pc = "ret" /\ op = "put" /\ rc = 1 /\ callSent = <<>>
    /\ Queue_full(txQueue) /\ ~TxReady

\* C8: put with the transmitter ready and the TX queue empty writes one byte to the
\* transmitter, the byte it was given (the accepted byte leaves the pending history
\* at once), returns success and leaves the TX queue empty.
C8_PutDirect ==
    [][(PutStep /\ TxReady /\ Queue_empty(txQueue)) =>
          /\ rc' = 0 /\ Len(callSent') = 1 /\ txLevel' = txLevel + 1
          /\ txGhost'.ok /\ txGhost'.pending = txGhost.pending
          /\ Queue_size(txQueue) = 0 /\ Queue_size(txQueue') = 0]_vars

\* a put returned success having written its byte, the TX queue empty
C8_Witness ==
    /\ pc = "ret" /\ op = "put" /\ rc = 0 /\ Len(callSent) = 1
    /\ Queue_empty(txQueue) /\ txGhost.pending = <<>>

\* C9 (NiosUart): a put or write that returns success leaves TRDY set in
\* interruptFlags and in the control register, by whichever path.
C9_TxSourceOn ==
    [][(platform = "nios" /\ pc = "cs" /\ op \in {"put", "write"} /\ pc' = "ret"
        /\ rc' = 0)
          => ("TRDY" \in interruptFlags' /\ control' = interruptFlags')]_vars

\* a put has rotated on NiosUart and the source is on
C9_Witness ==
    /\ platform = "nios" /\ pc = "ret" /\ op = "put" /\ rc = 0
    /\ callSent # <<>> /\ ~Queue_empty(txQueue) /\ "TRDY" \in control

\* C10: get with a non-empty RX queue returns success, stores the oldest byte the
\* handler stored and takes exactly that byte off the queue; get with an empty RX
\* queue returns failure and leaves the RX queue and the output byte as they were.
C10_Get ==
    [][GetStep =>
          IF Queue_size(rxQueue) # 0
          THEN /\ rc' = 0
               /\ outData' = <<Head(rxGhost.pending)>>
               /\ Queue_size(rxQueue') = Queue_size(rxQueue) - 1
               /\ QueueContents(rxQueue') = Tail(QueueContents(rxQueue))
          ELSE /\ rc' = 1 /\ rxQueue' = rxQueue /\ outData' = outData]_vars

\* a get returned the older of two different buffered bytes
C10_Witness ==
    /\ pc = "ret" /\ op = "get" /\ rc = 0
    /\ Queue_size(rxQueue) = 1 /\ outData # QueueContents(rxQueue)

ReadStep == pc = "cs" /\ op = "read" /\ pc' = "ret"

WriteStep == pc = "cs" /\ op = "write" /\ pc' = "ret"

\* C11: read(buf, n) succeeds exactly when the RX queue holds at least n bytes; on
\* success buf receives the n oldest bytes the handler stored, in order, and exactly
\* those leave the queue; on failure the queue and buf are as they were.
C11_Read ==
    [][ReadStep =>
          /\ rc' = 0 <=> Queue_size(rxQueue) >= arg.count
          /\ rc' = 0 =>
                /\ outData' = SubSeq(rxGhost.pending, 1, arg.count)
                /\ QueueContents(rxQueue') =
                      SubSeq(QueueContents(rxQueue), arg.count + 1, Queue_size(rxQueue))
                /\ Queue_size(rxQueue') = Queue_size(rxQueue) - arg.count
          /\ rc' # 0 => (rxQueue' = rxQueue /\ outData' = outData)]_vars

\* a read returned two different bytes at once
C11_Witness ==
    /\ pc = "ret" /\ op = "read" /\ rc = 0
    /\ Len(outData) = 2 /\ outData[1] # outData[2]

\* the bytes a write moved on towards the wire followed by those it left queued
TxAfterWrite == callSent' \o QueueContents(txQueue')

\* C12: write(buf, n) succeeds exactly when the TX queue has at least n free slots; on
\* success the n bytes are appended to the queued bytes in order, on failure none of
\* them is queued or written to the transmitter.
C12_Write ==
    [][WriteStep =>
          /\ arg'.count = Len(arg'.data)
          /\ rc' = 0 <=> Queue_availableSize(txQueue) >= arg'.count
          /\ rc' = 0 => TxAfterWrite = QueueContents(txQueue) \o arg'.data
          /\ rc' # 0 => TxAfterWrite = QueueContents(txQueue)]_vars

\* a write of two different bytes succeeded
C12_Witness ==
    /\ pc = "ret" /\ op = "write" /\ rc = 0
    /\ Len(arg.data) = 2 /\ arg.data[1] # arg.data[2]

\* C13: from any reachable state clear() leaves the TX queue empty, the RX queue empty
\* and none of the overrun, framing and parity flags set.
C13_Clear ==
    [][ClearStep =>
          /\ Queue_empty(txQueue') /\ Queue_size(txQueue') = 0
          /\ Queue_empty(rxQueue') /\ Queue_size(rxQueue') = 0
          /\ lastError' = {}]_vars

\* clear() is in its critical section with bytes in both queues and all three flags set
C13_Witness ==
    /\ pc = "cs" /\ op = "clear" /\ ~isrActive
    /\ ~Queue_empty(txQueue) /\ ~Queue_empty(rxQueue)
    /\ lastError = ErrorBits

FlushWaiting == pc \in {"flush_loop", "flush_tmt"}

FlushTimeoutStep == FlushWaiting /\ pc' = "ret" /\ rc' # 0

\* C14 as stated: flush always returns, and wherever it waits for an absent status it
\* gives up with a failure once one frame period has elapsed since the wait began.
C14_StallAfterOneFrame ==
    /\ FlushWaiting ~> pc = "ret"
    /\ [](FlushWaiting /\ StatusAbsent /\ elapsedFrames >= 1 => ENABLED FlushTimeout)

\* C14: flush always returns while the counter advances; a wait for an absent status
\* ends in a failure once its bound has elapsed and not before: one frame period for
\* the ready and complete waits, the FIFO depth in frame periods for MbUart's wait for
\* an empty TX FIFO.
C14_StallAtBound ==
    /\ FlushWaiting ~> pc = "ret"
    /\ [](FlushWaiting /\ StatusAbsent /\
             elapsedFrames >= (IF platform = "mb" /\ Queue_empty(txQueue) THEN MbFifoDepth ELSE 1)
             => ENABLED FlushTimeout)
    /\ [][FlushTimeoutStep =>
             /\ StatusAbsent
             /\ elapsedFrames >= (IF platform = "mb" /\ Queue_empty(txQueue)
                                  THEN MbFifoDepth ELSE 1)]_vars

\* a flush gave up with bytes still queued after one frame period without transmit-ready
C14_Witness ==
    /\ pc = "ret" /\ op = "flush" /\ rc # 0
    /\ ~Queue_empty(txQueue) /\ elapsedFrames = 1

NiosFlushSuccessStep ==
    platform = "nios" /\ op = "flush" /\ FlushWaiting /\ pc' = "ret" /\ rc' = 0

\* C15: NiosUart::flush returns 0 only with the TX queue empty and every accepted byte
\* written, from the wait for transmit-complete that follows a seen transmit-ready,
\* with both bits standing in the status register; the transmit-ready source is then
\* off in interruptFlags and in the control register. While it waits for
\* transmit-complete the queue is empty and transmit-ready stays reported.
C15_NiosFlushSuccess ==
    /\ [][NiosFlushSuccessStep =>
             /\ pc = "flush_tmt"
             /\ Queue_empty(txQueue) /\ Queue_empty(txQueue')
             /\ txGhost'.ok /\ txGhost'.pending = <<>>
             /\ {"TRDY", "TMT"} \subseteq NiosStatus
             /\ "TRDY" \notin interruptFlags'
             /\ "TRDY" \notin control']_vars
    /\ [](platform = "nios" /\ pc = "flush_tmt" =>
             Queue_empty(txQueue) /\ "TRDY" \in NiosStatus)

\* NiosUart::flush wrote two queued bytes itself and returned 0
C15_Witness ==
    /\ platform = "nios" /\ pc = "ret" /\ op = "flush" /\ rc = 0
    /\ Len(callSent) = 2
    /\ "TRDY" \notin interruptFlags /\ "TRDY" \notin control

\* the platform allow-lists
BitratesAllowed ==
    IF platform = "nios" THEN {9600, 19200, 38400, 57600, 115200}
                         ELSE {9600, 19200, 38400, 57600, 115200, 230400}

DatabitsAllowed == IF platform = "nios" THEN {7, 8} ELSE {5, 6, 7, 8}

ParamsAllowed(p) ==
    /\ p.bitrate \in BitratesAllowed /\ p.databit \in DatabitsAllowed
    /\ p.parity \in {"none", "odd", "even"} /\ p.stopbit \in {1, 2}
    /\ p.flowControl = "none"

SetupEntry == pc = "idle" /\ op' = "setup"

\* C16: setup with parameters outside the platform allow-list returns non-zero at once
\* and changes nothing: queues, error flags, frame period, interrupt-source flags,
\* controller enable, handler registration and the device registers are as before.
C16_SetupReject ==
    [][SetupEntry /\ ~ParamsAllowed(arg'.params) =>
          /\ pc' = "ret" /\ rc' # 0
          /\ UNCHANGED <<txQueue, rxQueue, lastError, framePeriodUsec, interruptFlags,
                         icEnabled, isrRegistered, errorMask, hwVars>>]_vars

\* setup was refused on a transport holding bytes in both queues and a latched error
C16_Witness ==
    /\ pc = "ret" /\ op = "setup" /\ rc # 0
    /\ ~ParamsAllowed(arg.params)
    /\ ~Queue_empty(txQueue) /\ ~Queue_empty(rxQueue) /\ lastError # {}

SetupSuccessStep == op = "setup" /\ pc # "ret" /\ pc' = "ret" /\ rc' = 0

\* C17: when setup returns 0 both queues are empty, no error flag is set, the handler
\* is registered, the line is enabled at the controller and, on NiosUart, the
\* transmit-ready source is off while the receive and error sources are on.
C17_SetupSuccess ==
    [][SetupSuccessStep =>
          /\ Queue_empty(txQueue') /\ Queue_empty(rxQueue')
          /\ lastError' = {}
          /\ isrRegistered'
          /\ icEnabled'
          /\ platform = "nios" =>
                /\ interruptFlags' = NiosSources /\ "TRDY" \notin interruptFlags'
                /\ control' = NiosSources]_vars

\* the bytes that leave the receiver in a step, oldest first
RxRemoved == SubSeq(rxFifo, 1, Len(rxFifo) - Len(rxFifo'))

\* the handler run resets the UartLite RX FIFO instead of reading it
RxFifoReset == platform = "mb" /\ (isrStatus \cap errorMask) # {}

\* what a handler run does with the bytes bs: it stores them in order while the RX
\* queue has room and drops the rest with the overrun flag set
RxStoredInOrder(bs) ==
    /\ QueueContents(rxQueue') =
          QueueContents(rxQueue) \o SubSeq(bs, 1, Min(Len(bs), Queue_availableSize(rxQueue)))
    /\ Len(bs) > Queue_availableSize(rxQueue) => "overrun" \in lastError'

\* get/read return the stored bytes in order, and the stored bytes not yet returned
\* are the RX queue's content
RxReturnedInOrder == rxGhost.ok /\ rxGhost.pending = QueueContents(rxQueue)

\* C18 as stated: get/read return the stored bytes in order, and the stored bytes are
\* the bytes that arrived at the hardware less only those that found the RX queue
\* full: every arriving byte enters the receiver, and every byte that leaves the
\* receiver in a handler run is stored unless the queue is full.
C18_RxArrivalOrder ==
    /\ []RxReturnedInOrder
    /\ [][HandlerStep => RxStoredInOrder(RxRemoved)]_vars
    /\ [][rxArrived' = rxArrived + 1 =>
             \E b \in Bytes : rxFifo' = Append(rxFifo, b)]_vars

\* C18: get/read return, in order, exactly the bytes the handler stored, and the
\* handler stores the bytes it reads from the receive data register in order, dropping
\* only those it reads while the RX queue is full, each drop setting the overrun flag.
C18_RxOrder ==
    /\ []RxReturnedInOrder
    /\ [][HandlerStep =>
             RxStoredInOrder(IF RxFifoReset THEN <<>> ELSE RxRemoved)]_vars

\* three bytes arrived, the third found the RX queue full, and a read returned the
\* first two, which differ
C18_Witness ==
    /\ pc = "ret" /\ op = "read" /\ rc = 0
    /\ Len(outData) = 2 /\ outData[1] # outData[2]
    /\ rxArrived = MaxArrivals /\ rxFifo = <<>> /\ Queue_empty(rxQueue)
    /\ lastError = {"overrun"}

\* C19: on a queue of any capacity from 1, pushed only when not full and popped only
\* when not empty, size() is the number of pushes less the number of pops, peek() is
\* the oldest pushed element not yet popped, and the content is the pushed elements
\* not yet popped in push order.
C19_FifoLaw ==
    /\ Queue_size(queue) = Len(pushHistory) - popCount
    /\ ~Queue_empty(queue) => Queue_peek(queue) = pushHistory[popCount + 1]
    /\ QueueContents(queue) = SubSeq(pushHistory, popCount + 1, Len(pushHistory))

\* a queue of capacity 2 wrapped around: after a pop it holds the two youngest pushed
\* elements, which differ, the younger one stored below the older one
C19_Witness ==
    /\ Queue_maxSize(queue) = 2 /\ Queue_size(queue) = 2 /\ popCount > 0
    /\ queue.tail = queue.head /\ queue.head = 1
    /\ queue.elements[0] # queue.elements[1]

\* C20: after construction and after every clear, push and pop, full() is true exactly
\* when size() is the capacity and empty() is true exactly when size() is 0.
C20_FullEmpty ==
    /\ Queue_full(queue) <=> Queue_size(queue) = Queue_maxSize(queue)
    /\ Queue_empty(queue) <=> Queue_size(queue) = 0
    /\ Queue_size(queue) <= Queue_maxSize(queue)

\* a queue of capacity 3 is full again after pops and a wrap-around
C20_Witness ==
    /\ Queue_maxSize(queue) = QueueSizeMax /\ Queue_full(queue) /\ ~Queue_empty(queue)
    /\ popCount > 0 /\ queue.head > 0

\* C21: on a queue pushed when not full, popped when not empty and cleared, size() stays
\* within 0..capacity, head and tail stay within 0..capacity-1 (tail is head plus size,
\* wrapped), availableSize() is the capacity less size(), and maxSize() is the capacity
\* the queue was constructed with, which no operation changes.
C21_QueueInvariant ==
    /\ [](/\ 0 <= Queue_size(queue) /\ Queue_size(queue) <= queue.kSIZE_MAX
          /\ queue.head \in 0..(queue.kSIZE_MAX - 1)
          /\ queue.tail \in 0..(queue.kSIZE_MAX - 1)
          /\ queue.tail = (queue.head + queue.size) % queue.kSIZE_MAX
          /\ Queue_availableSize(queue) = queue.kSIZE_MAX - Queue_size(queue)
          /\ Queue_maxSize(queue) = queue.kSIZE_MAX
          /\ DOMAIN queue.elements = 0..(queue.kSIZE_MAX - 1))
    /\ [][Queue_maxSize(queue') = Queue_maxSize(queue)]_vars

\* a queue of the largest capacity whose head went once around and came back to 0
\* while elements were still queued
C21_Witness ==
    /\ Queue_maxSize(queue) = QueueSizeMax /\ popCount = QueueSizeMax
    /\ queue.head = 0 /\ queue.tail > 0 /\ Queue_size(queue) > 0

\* a queue of capacity N has seen N pushes and one pop, and is pushed again
RefillStep ==
    /\ Len(pushHistory) = Queue_maxSize(queue) /\ popCount = 1
    /\ Len(pushHistory') = Len(pushHistory) + 1

\* C22: on a queue of capacity N that was filled and popped once, the next push finds
\* tail wrapped to 0, stores into slot 0, which the pop freed, and advances tail past
\* it; afterwards size() is N, full() is true and peek() is the second element pushed.
C22_SlotReuse ==
    [][RefillStep =>
          /\ ~Queue_full(queue) /\ queue.tail = 0
          /\ queue'.elements[0] = pushHistory'[Len(pushHistory')]
          /\ queue'.tail = 1 % Queue_maxSize(queue)
          /\ Queue_size(queue') = Queue_maxSize(queue) /\ Queue_full(queue')
          /\ Queue_peek(queue') = pushHistory'[2]]_vars

\* capacity 4: A, B, C, D pushed, A popped, E pushed over A; B differs from A and E
C22_Witness ==
    /\ Queue_maxSize(queue) = 4 /\ Len(pushHistory) = 5 /\ popCount = 1
    /\ Queue_size(queue) = 4 /\ Queue_full(queue)
    /\ Queue_peek(queue) = pushHistory[2] /\ pushHistory[2] # pushHistory[1]
    /\ queue.elements[0] = pushHistory[5] /\ pushHistory[5] # pushHistory[1]

\* everything a caller can observe of a queue, and its two cursors
QueueObserved(q) ==
    [size |-> Queue_size(q), empty |-> Queue_empty(q), full |-> Queue_full(q),
     availableSize |-> Queue_availableSize(q), maxSize |-> Queue_maxSize(q),
     contents |-> QueueContents(q), head |-> q.head, tail |-> q.tail]

QueueClearStep ==
    /\ pushHistory' = <<>> /\ popCount' = 0
    /\ pushHistory # <<>> \/ popCount # 0 \/ queue' # queue

\* C23: clear() from any reachable state leaves the queue indistinguishable from a newly
\* constructed one of the same capacity (size 0, empty, head and tail 0, capacity as
\* before), pushes and pops after it follow the FIFO law counted from the clear, and a
\* second clear() changes nothing.
C23_ClearFresh ==
    /\ [][QueueClearStep =>
             /\ QueueObserved(queue') = QueueObserved(FixedQueue(Queue_maxSize(queue)))
             /\ Queue_clear(queue') = queue']_vars
    /\ [](/\ Queue_clear(Queue_clear(queue)) = Queue_clear(queue)
          /\ QueueContents(queue) = SubSeq(pushHistory, popCount + 1, Len(pushHistory))
          /\ Queue_size(queue) = Len(pushHistory) - popCount)

\* a queue of the largest capacity right after a clear, every slot still holding the 1
\* that was pushed into it before
C23_Witness ==
    /\ Queue_maxSize(queue) = QueueSizeMax
    /\ pushHistory = <<>> /\ popCount = 0
    /\ Queue_empty(queue) /\ queue.head = 0 /\ queue.tail = 0
    /\ \A i \in DOMAIN queue.elements : queue.elements[i] = 1

\* ---------------------------------------------------------------------------
\* C24: whenever the true number of counts since the base reading is below 2^32,
\* diff_count(base reading, current reading) equals it, for the up-counter (end - start)
\* and the down-counter (start - end) alike and whether or not the raw counter passed
\* its maximum/zero in between.
C24_DiffCount ==
    elapsedCounts <= UINT32_MAX
        => diff_count(countMethod, base_count, now) = elapsedCounts

\* the down-counter has passed zero since the base reading and the difference is
\* the largest a word holds
C24_Witness ==
    /\ countMethod = "down" /\ counter > base_count
    /\ elapsedCounts = UINT32_MAX
    /\ diff_count(countMethod, base_count, now) = UINT32_MAX

\* ---------------------------------------------------------------------------
\* C25: timeout(base, t) returns true exactly when diff_count(base, now()) >= t.  With
\* t > 0 it is false at the instant the base was read and while fewer than t counts
\* have elapsed, and true once at least t (and fewer than 2^32) counts have elapsed,
\* also when the counter wrapped in between.
TimeoutStep ==
    /\ frcCall'.name = "timeout"
    /\ UNCHANGED <<counter, base_count, elapsedCounts>>

C25_Timeout ==
    [][TimeoutStep =>
         /\ (frcCall'.value = 1)
                <=> (diff_count(countMethod, base_count, now) >= frcCall'.input)
         /\ (frcCall'.value = 1) <=> (elapsedCounts >= frcCall'.input)
         /\ (frcCall'.input > 0 /\ elapsedCounts = 0 => frcCall'.value = 0)]_vars

\* a timeout reported at exactly t counts after the base, the down-counter having
\* passed zero on the way
C25_Witness ==
    /\ frcCall.name = "timeout" /\ frcCall.value = 1
    /\ frcCall.input > 0 /\ elapsedCounts = frcCall.input
    /\ countMethod = "down" /\ counter > base_count

\* ---------------------------------------------------------------------------
\* C26: time-to-count conversion never rounds down.  For every timer frequency f and
\* every duration d that passes the assertion, convertNsecToCount, convertUsecToCount
\* and convertMsecToCount return a count c that lasts at least d at that frequency:
\* c * 10^9 >= d_ns * f, c * 10^6 >= d_us * f, c * 10^3 >= d_ms * f.
UnitsPerSec(unit) ==
    IF unit = "nsec" THEN kNSEC_PER_SEC
    ELSE IF unit = "usec" THEN kUSEC_PER_SEC
    ELSE kMSEC_PER_SEC

Converted == frcCall.name = "convert" /\ frcCall.passed

CountsPerSum(unit) ==
    frequency + (IF unit = "nsec" THEN k1024NSEC_PER_SEC - 1
                 ELSE IF unit = "usec" THEN kUSEC_PER_SEC - 1
                 ELSE kMSEC_PER_SEC - 1)

GuardedCall == frcCall.name \in {"convert", "wait"}

\* the product and sum of the conversion, not reduced to the word
ConvertProduct ==
    kCOUNTS_PER(FreeRunCounter(frequency), frcCall.unit) * frcCall.input
        + (IF frcCall.unit = "nsec" THEN k1024 - 1 ELSE 0)

C27_GuardSafe ==
    /\ [](GuardedCall =>
            /\ (frcCall.passed => ConvertProduct <= UINT32_MAX)
            /\ (ConvertProduct > UINT32_MAX => ~frcCall.passed /\ frcCall.value = 0)
            /\ (frcCall.passed =>
                  frcCall.value = (IF frcCall.unit = "nsec"
                                   THEN ConvertProduct \div k1024
                                   ELSE ConvertProduct)))
    /\ [][frcCall'.name = "wait" /\ ~frcCall'.passed
              => UNCHANGED <<counter, base_count, elapsedCounts>>]_vars

\* a nanosecond wait refused although the multiplication alone fits the word: the
\* + 1023 would have wrapped
C27_Witness ==
    /\ frcCall.name = "wait" /\ frcCall.unit = "nsec" /\ ~frcCall.passed
    /\ ConvertProduct > UINT32_MAX
    /\ ConvertProduct - (k1024 - 1) <= UINT32_MAX

\* ---------------------------------------------------------------------------
\* C28: measureDurationNsec/Usec/Msec round up.  For every pair of readings the
\* returned duration is at least the true duration of diff_count(start, end) counts at
\* the timer's frequency: duration * f >= counts * 10^9 (10^6, 10^3).
\* The calls considered are those whose division is defined (measurement unit >= 1, the
\* frequency not below the unit's literal); frcCall.input is the count difference.
Measured ==
    /\ frcCall.name = "measure"
    /\ kMEASUREMENT_UNIT(FreeRunCounter(frequency), frcCall.unit) > 0

C28_MeasureRoundsUp ==
    Measured => frcCall.value * frequency >= frcCall.input * UnitsPerSec(frcCall.unit)

\* ---------------------------------------------------------------------------
\* C29: after a successful setup getFramePeriodUsec() returns
\* ceil(1,000,000 * (1 start bit + data bits + parity bit + stop bits) / bitrate) for
\* the parameters of that setup, the parity bit being 1 for odd/even and 0 for none,
\* and no other operation changes what it returns.
FrameBits(p) ==
    1 + p.databit + (IF p.parity \in {"odd", "even"} THEN 1 ELSE 0) + p.stopbit

\* n = ceil(1,000,000 * bits / bitrate)
IsFramePeriodOf(n, p) ==
    /\ n * p.bitrate >= 1000000 * FrameBits(p)
    /\ (n - 1) * p.bitrate < 1000000 * FrameBits(p)

C29_FramePeriod ==
    /\ [][SetupSuccessStep => IsFramePeriodOf(getFramePeriodUsec', arg.params)]_vars
    /\ [][getFramePeriodUsec' # getFramePeriodUsec
              => op = "setup" /\ pc = "cs" /\ ParamsAllowed(arg.params)
                 /\ IsFramePeriodOf(getFramePeriodUsec', arg.params)]_vars

\* a frame period other than the constructor's, rounded up by setup, still returned
\* after a later put
C29_Witness ==
    /\ op = "put" /\ pc = "ret"
    /\ getFramePeriodUsec # calcFramePeriodUsec(DefaultParams)
    /\ \E p \in SetupParams :
          /\ ParamsAllowed(p) /\ IsFramePeriodOf(getFramePeriodUsec, p)
          /\ (1000000 * FrameBits(p)) % p.bitrate # 0

\* ---------------------------------------------------------------------------
\* C30: a handler invocation whose status word has parity, framing or overrun bits
\* set ORs those bits into the latched errors (the receive step of the same invocation
\* may add its own overrun), leaves the hardware latch clear, and still performs the
\* receive-drain and the transmit-refill of that invocation: the receiver that had
\* data is emptied, and a ready transmitter takes a byte from a non-empty TX queue.
StatusErrors == isrStatus \cap errorMask

ErrorHandlerStep == HandlerStep /\ StatusErrors # {}

DataReadyAtEntry ==
    IF platform = "nios" THEN "RRDY" \in isrStatus
                         ELSE "RX_FIFO_VALID_DATA" \in isrStatus

TxReadyAtEntry ==
    IF platform = "nios" THEN "TRDY" \in isrStatus
                         ELSE "TX_FIFO_FULL" \notin isrStatus

C30_ErrorKeepsTransfer ==
    [][ErrorHandlerStep =>
          /\ (lastError \cup StatusErrors) \subseteq lastError'
          /\ lastError' \subseteq (lastError \cup StatusErrors \cup {"overrun"})
          /\ hwErr' = {}
          /\ DataReadyAtEntry => rxFifo' = <<>>
          /\ TxReadyAtEntry /\ ~Queue_empty(txQueue)
                => Queue_size(txQueue') < Queue_size(txQueue) /\ txLevel' > txLevel]_vars

\* ---------------------------------------------------------------------------
\* C31: the C and the C++ implementation of one platform's UART behave alike.  From
\* the same state and the same status word the handler of mb_uart.c and the handler
\* of mb_uart.cpp leave the same sticky errors, buffers, device registers and
\* interrupt-controller acknowledgement.
\* what the MbUart handler of binding l leaves, from the state and status at hand
MbHandlerOutcome(l) ==
    LET err == isrStatus \cap errorMask
        last1 == IF err # {} THEN LatchError(lastError, isrStatus, errorMask)
                            ELSE lastError
        fifo1 == IF err # {} THEN <<>> ELSE rxFifo
        done == err # {} /\ l = "cpp"
        rx == IF ~done /\ "RX_FIFO_VALID_DATA" \in isrStatus
              THEN MbReceive(rxQueue, last1, fifo1, <<>>, 0)
              ELSE [q |-> rxQueue, last |-> last1, fifo |-> fifo1, kept |-> <<>>]
        tx == IF ~done /\ "TX_FIFO_FULL" \notin isrStatus
              THEN writeToTxFifo(txQueue, txLevel, <<>>, 0)
              ELSE [q |-> txQueue, level |-> txLevel, sent |-> <<>>]
    IN [lastError |-> rx.last,
        rxQueue |-> QueueContents(rx.q),
        txQueue |-> QueueContents(tx.q),
        rxFifo |-> rx.fifo,
        txLevel |-> tx.level,
        control |-> IF err = {} THEN control
                    ELSE IF l = "cpp" THEN {"ENABLE_INTR"} ELSE {},
        acknowledged |-> ~done]

MbHandlerStep == HandlerStep /\ platform = "mb"

C31_BindingsAgree ==
    [][MbHandlerStep =>
          /\ [lastError |-> lastError', rxQueue |-> QueueContents(rxQueue'),
              txQueue |-> QueueContents(txQueue'), rxFifo |-> rxFifo',
              txLevel |-> txLevel', control |-> control',
              acknowledged |-> MbHandlerOutcome(lang).acknowledged]
                = MbHandlerOutcome(lang)
          /\ MbHandlerOutcome("c") = MbHandlerOutcome("cpp")]_vars

\* ---------------------------------------------------------------------------
\* C32: waitNsec/waitUsec/waitMsec(d) return only once diff_count(base, now()) has
\* reached the converted count of d, for the base read at entry, and they do return
\* when the counter keeps counting and is read while the elapsed count is in
\* [timeoutCount, 2^32).
WaitReturnStep == frcCall.name = "waiting" /\ frcCall'.name = "wait"

C32_Wait ==
    /\ [][WaitReturnStep =>
            /\ frcCall.value = convertToCount(FreeRunCounter(frequency), frcCall.unit,
                                               frcCall.input)
            /\ diff_count(countMethod, base_count, now) >= frcCall.value
            /\ elapsedCounts >= frcCall.value]_vars
    /\ (frcCall.name = "waiting") ~> (frcCall.name = "wait" /\ frcCall.passed)

\* a wait of some counts has returned, the down-counter having passed zero meanwhile
C32_Witness ==
    /\ frcCall.name = "wait" /\ frcCall.passed /\ frcCall.value > 0
    /\ elapsedCounts >= frcCall.value
    /\ countMethod = "down" /\ counter > base_count

RECURSIVE SlotsFrom(_, _, _)
SlotsFrom(q, slot, n) ==
    IF n = 0 THEN <<>>
    ELSE <<slot>> \o SlotsFrom(q, (slot + 1) % q.kSIZE_MAX, n - 1)

SlotsHeadToTail(q) ==
    SlotsFrom(q, q.head,
              IF q.head = q.tail
              THEN (IF Queue_full(q) THEN q.kSIZE_MAX ELSE 0)
              ELSE (q.tail - q.head + q.kSIZE_MAX) % q.kSIZE_MAX)

\* the elements pushed and not yet popped, oldest first
Outstanding == SubSeq(pushHistory, popCount + 1, Len(pushHistory))

\* C34: in every state reached by pushes on a non-full queue, pops on a non-empty one
\* and clears, tail is (head + size) mod capacity; head equals tail exactly when the
\* queue is empty or full; and the slots from head up to but excluding tail hold
\* exactly the size elements pushed and not yet popped, oldest at head.
C34_RingShape ==
    /\ queue.tail = (queue.head + Queue_size(queue)) % queue.kSIZE_MAX
    /\ (queue.head = queue.tail) <=> (Queue_empty(queue) \/ Queue_full(queue))
    /\ Len(SlotsHeadToTail(queue)) = Queue_size(queue)
    /\ Len(Outstanding) = Queue_size(queue)
    /\ \A i \in 1..Queue_size(queue) :
          queue.elements[SlotsHeadToTail(queue)[i]] = Outstanding[i]

\* a full queue whose occupied slots wrap past the end of the storage, or a partly
\* filled one whose tail is below its head
C34_Witness ==
    /\ Queue_maxSize(queue) = QueueSizeMax /\ popCount > 0 /\ queue.elements[0] # 0
    /\ \/ Queue_full(queue) /\ queue.head = queue.tail /\ queue.head > 0
       \/ ~Queue_full(queue) /\ queue.tail < queue.head

\* a queue in the shape its operations keep while their preconditions hold; a push on
\* a full queue or a pop on an empty one leaves it (size_ passes the capacity or wraps)
QueueInBounds(q) ==
    /\ 0 <= Queue_size(q) /\ Queue_size(q) <= Queue_maxSize(q)
    /\ q.tail = (q.head + Queue_size(q)) % Queue_maxSize(q)

\* C35: under every interleaving of get, put, read, write, clear, flush and the
\* handler, the transport never pushes to a full queue nor pops or reads the front of
\* an empty one, so the size of txQueue and of rxQueue stays within 0..capacity.
C35_QueuesInBounds ==
    /\ Queue_maxSize(txQueue) >= 1 /\ Queue_maxSize(rxQueue) >= 1
    /\ QueueInBounds(txQueue) /\ QueueInBounds(rxQueue)

\* the handler met a full RX queue (it latched the overrun instead of pushing) and
\* found the TX queue empty after bytes of the running call were sent
C35_Witness ==
    /\ Queue_full(rxQueue) /\ "overrun" \in lastError
    /\ Queue_empty(txQueue) /\ Len(callSent) > 0
    /\ isrActive

\* the operations that disable the device's interrupt line while they run ("query"
\* stands for isOverrunError, isFramingError and isParityError)
DisablingOps == {"get", "put", "read", "write", "clear", "flush", "setup", "query"}

\* a call stands at its return, other than a setup that failed
CompletedCall == pc = "ret" /\ op \in DisablingOps /\ ~(op = "setup" /\ rc # 0)

\* C36: every foreground operation that disables the device interrupt line (get, put,
\* read, write, clear, flush, the three error queries and a successful setup) has
\* enabled it again when it returns, on every path including flush's timeout failure,
\* so no completed call leaves interrupt servicing disabled.
C36_LineReenabled ==
    /\ CompletedCall => icEnabled
    /\ pc = "idle" => icEnabled

\* flush gave up on a wait with bytes still queued and stands at its return
C36_Witness ==
    /\ pc = "ret" /\ op = "flush" /\ rc # 0 /\ ~Queue_empty(txQueue)
    /\ icEnabled

\* flush is inside its loop or its final waits
InFlush == op = "flush" /\ pc \in {"flush_loop", "flush_tmt"}

\* what the running flush has written followed by what is still queued
FlushLedger(sent, q) == sent \o QueueContents(q)

\* C37: flush pops a byte from the TX queue only after writing it to the hardware, so
\* when flush returns failure the bytes not yet written are still in the TX queue in
\* their order, none lost or duplicated, and the next byte written by a later flush
\* or by the handler is the first of them.
C37_FlushKeepsUnwritten ==
    /\ [][InFlush => FlushLedger(callSent', txQueue') = FlushLedger(callSent, txQueue)]_vars
    /\ [][InFlush /\ txQueue' # txQueue =>
             /\ callSent' = Append(callSent, Queue_peek(txQueue))
             /\ QueueContents(txQueue') = Tail(QueueContents(txQueue))]_vars
    /\ [][InFlush /\ pc' = "ret" /\ rc' # 0 => txQueue' = txQueue]_vars
    /\ [](txGhost.ok /\ QueueContents(txQueue) = txGhost.pending)

\* flush wrote one byte, then gave up waiting for the transmitter with another byte,
\* a different one, still queued
C37_Witness ==
    /\ pc = "ret" /\ op = "flush" /\ rc # 0
    /\ Len(callSent) > 0 /\ ~Queue_empty(txQueue)
    /\ Queue_peek(txQueue) # callSent[Len(callSent)]
    /\ txGhost.pending = QueueContents(txQueue)

\* ---------------------------------------------------------------------------
\* C38: in MbUart every invocation of the interrupt handler acknowledges the interrupt
\* at the interrupt controller (XIntc_AckIntr) before it returns, on every path,
\* the one taken when the status register shows an error bit included: the handler
\* reaches the acknowledgement and leaves no latched request behind.
C38_HandlerAcknowledges ==
    [][MbHandlerStep => MbHandlerOutcome(lang).acknowledged /\ ~irqLatch']_vars

\* a timer was created without interrupt capability, or set up again
NiosTimerSetupStep ==
    /\ niosTimer' # niosTimer
    /\ niosTimer'.lastOp \in {"create", "setup"}

\* C39: constructing a NiosTimer without interrupt capability (ic_id = irq =
\* 0xFFFFFFFF), as the timer factory of the free-running counter does, completes its
\* initial setup without violating an assertion and without calling the interrupt
\* controller; the interrupt assertions fail only in setupInterrupt, enableInterrupt
\* and disableInterrupt calls made by the user.
C39_PlainTimerSetup ==
    [][NiosTimerSetupStep =>
          /\ niosTimer'.violated = niosTimer.violated
          /\ niosTimer'.state = "ready"
          /\ niosTimer'.icId = kINVALID_VALUE => niosTimer'.icCalls = niosTimer.icCalls]_vars

TypeOK ==
    /\ pc \in {"idle", "cs", "ret", "flush_loop", "flush_tmt", "setup_intr"}
    /\ rc \in {0, 1}
    /\ lastError \subseteq ErrorBits
    /\ txLevel \in 0..TxDepth

====
